---- MODULE Spec2Model ----
(***************************************************************************)
(* A model of fgtparser: the lexer and the recursive-descent parser of     *)
(* FgtConfigParser (_parser.py), the configuration tree, the traversal     *)
(* and the serializer of FgtConfig (_config.py).                           *)
(*                                                                         *)
(* A character is a string of length one, the end of stream is the empty   *)
(* string (as in the source), and a Python str is the sequence of its      *)
(* characters: a token is a sequence of characters and EOS is <<>>.        *)
(* A Python dict is the sequence of its (key, value) slots in insertion    *)
(* order.  A function that may raise returns a record whose field err      *)
(* names the exception class ("" when it returns normally).  A local       *)
(* variable of the source that is read several times is the parameter of   *)
(* a local operator (LET with_r(r) == ... IN with_r(e)): e is written, and *)
(* evaluated, once.                                                        *)
(***************************************************************************)
EXTENDS Integers, Sequences, FiniteSets, TLC

VARIABLES
    doc,                  \* the document being prepared, a sequence of lines
    edits,                \* lines inserted, deleted or replaced so far
    stream,               \* the text handed to parse (input_stream)
    root_config_factory,  \* FgtConfigParser._root_config_factory
    pc,                   \* where the caller stands
    result,               \* what the last parse returned or raised
    config_lines,         \* the lines of the last make_config
    text,                 \* the text of the last serialization
    how,                  \* the call that made text
    cycle,                \* parse/serialize cycles completed
    arg,                  \* the string handed to qus
    quoted,               \* qus(arg)
    unquoted,             \* uqs(quoted)
    table,                \* the table or the object of the lookups
    call,                 \* the last lookup: its method and its argument
    found                 \* what the last lookup returned or raised

vars == <<doc, edits, stream, root_config_factory, pc, result, config_lines, text,
          how, cycle, arg, quoted, unquoted, table, call, found>>

-----------------------------------------------------------------------------
(* Python values *)

None == "None"
NoToken == <<"None">>
NoError == ""

EOS == ""
EOL == "\n"
QUOTE == "\""
BACKSLASH == "\\"
HASH == "#"
SPACE == " "

\* str.isspace() for the characters of the model's alphabet
isspace(c) == c \in {" ", "\t", "\n", "\r"}

\* sep.join(parts) for a one-character separator
RECURSIVE join(_, _)
join(sep, parts) ==
    IF Len(parts) = 0 THEN <<>>
    ELSE IF Len(parts) = 1 THEN parts[1]
    ELSE parts[1] \o <<sep>> \o join(sep, Tail(parts))

\* text.startswith(prefix)
startswith(str, prefix) ==
    /\ Len(str) >= Len(prefix)
    /\ SubSeq(str, 1, Len(prefix)) = prefix

\* The index of the first occurrence of c in str at or after i, 0 when none
RECURSIVE find(_, _, _)
find(str, c, i) ==
    IF i > Len(str) THEN 0
    ELSE IF str[i] = c THEN i
    ELSE find(str, c, i + 1)

\* str.split(sep) for a one-character separator
RECURSIVE split(_, _)
split(str, sep) ==
    LET with_i(i) ==
        IF i = 0 THEN <<str>>
        ELSE <<SubSeq(str, 1, i - 1)>> \o split(SubSeq(str, i + 1, Len(str)), sep)
    IN  with_i(find(str, sep, 1))

\* str.strip()
RECURSIVE lstrip(_)
lstrip(str) ==
    IF Len(str) > 0 /\ isspace(str[1]) THEN lstrip(Tail(str)) ELSE str

RECURSIVE rstrip(_)
rstrip(str) ==
    IF Len(str) > 0 /\ isspace(str[Len(str)])
    THEN rstrip(SubSeq(str, 1, Len(str) - 1)) ELSE str

strip(str) == rstrip(lstrip(str))

\* str.replace(old, new): non-overlapping occurrences, left to right
RECURSIVE replace(_, _, _)
replace(str, old, new) ==
    IF Len(str) < Len(old) THEN str
    ELSE IF SubSeq(str, 1, Len(old)) = old
         THEN new \o replace(SubSeq(str, Len(old) + 1, Len(str)), old, new)
         ELSE <<str[1]>> \o replace(Tail(str), old, new)

-----------------------------------------------------------------------------
(* _config.py: quoting *)

uqs(a) ==
    IF Len(a) < 2 THEN a
    ELSE IF a[1] # QUOTE \/ a[Len(a)] # QUOTE THEN a
    ELSE LET with_r(r) == SubSeq(r, 2, Len(r) - 1)
         IN  with_r(replace(replace(a, <<BACKSLASH, QUOTE>>, <<QUOTE>>),
                            <<BACKSLASH, BACKSLASH>>, <<BACKSLASH>>))

\* qus that escapes the quotes before the backslashes
qus_quotes_first(a) ==
    <<QUOTE>>
    \o replace(replace(a, <<QUOTE>>, <<BACKSLASH, QUOTE>>),
               <<BACKSLASH>>, <<BACKSLASH, BACKSLASH>>)
    \o <<QUOTE>>

qus(a) ==
    <<QUOTE>>
    \o replace(replace(a, <<BACKSLASH>>, <<BACKSLASH, BACKSLASH>>),
               <<QUOTE>>, <<BACKSLASH, QUOTE>>)
    \o <<QUOTE>>

-----------------------------------------------------------------------------
(* _parser.py: FgtConfigParser.Lexer *)

\* Lexer.__init__
Lexer ==
    [i |-> 1, char |-> None, row |-> 1, col |-> 1, token |-> NoToken]

_update_position(L, c) ==
    IF c = EOL THEN [L EXCEPT !.row = L.row + 1, !.col = 1]
    ELSE [L EXCEPT !.col = L.col + 1]

_is_eol(token) == token \in {<<EOL>>, <<>>}
_is_eol_char(c) == c \in {EOL, EOS}

\* is_eos that takes the end of a line for the end of the stream
is_eos_or_eol(token) == token \in {<<EOL>>, <<>>}

is_eos(token) == token = <<>>
is_eos_char(c) == c = EOS

is_comment(token) == token[1] = HASH

\* input_stream.read(1) and the stream's own cursor
_next(s, L) ==
    IF L.char = None
    THEN IF L.i <= Len(s)
         THEN [c |-> s[L.i], lex |-> _update_position([L EXCEPT !.i = L.i + 1], s[L.i])]
         ELSE [c |-> EOS, lex |-> _update_position(L, EOS)]
    ELSE [c |-> L.char, lex |-> [L EXCEPT !.char = None]]

_unget(L, c) == [L EXCEPT !.char = c]

RECURSIVE _next_ns(_, _)
_next_ns(s, L) ==
    LET with_r(r) ==
        IF isspace(r.c) /\ ~_is_eol_char(r.c) THEN _next_ns(s, r.lex) ELSE r
    IN  with_r(_next(s, L))

push_token(L, token) == [L EXCEPT !.token = token]

Raise(kind, msg, L) == [err |-> kind, msg |-> msg, lex |-> L]

\* next_token: the comment branch's loop
RECURSIVE scan_comment(_, _, _, _)
scan_comment(s, L, c, token) ==
    IF _is_eol_char(c) THEN [err |-> NoError, msg |-> "", lex |-> L, token |-> token]
    ELSE LET with_r(r) == scan_comment(s, r.lex, r.c, Append(token, c))
         IN  with_r(_next(s, L))

\* The lexer after _next has read the characters s[L.i..j] one after the
\* other (j = Len(s) + 1 reads the end of the stream too): _update_position
\* has counted each of them
read_through(s, L, j) ==
    LET with_eols(eols) ==
        [L EXCEPT !.i = IF j < Len(s) THEN j + 1 ELSE Len(s) + 1,
                  !.row = L.row + Cardinality(eols),
                  !.col = IF eols = {} THEN L.col + (j - L.i + 1)
                          ELSE 1 + (j - (CHOOSE m \in eols : \A n \in eols : n <= m))]
    IN  with_eols({m \in L.i..j : m <= Len(s) /\ s[m] = EOL})

\* next_token: the quoted string branch's loop. It reads a backslash together
\* with the character after it, so the character at k follows a backslash of
\* its pair when the backslashes right before it, from first on, are odd in
\* number
escaped(s, first, k) ==
    (CHOOSE d \in 0..(k - first) :
        /\ d = k - first \/ s[k - 1 - d] # BACKSLASH
        /\ \A e \in 0..(d - 1) : s[k - 1 - e] = BACKSLASH) % 2 = 1

\* The quote that ends the string begun before first: the first one outside a
\* pair, Len(s) + 1 when the stream ends before it
next_quote(s, first) ==
    CHOOSE k \in first..(Len(s) + 1) :
        /\ k > Len(s) \/ (s[k] = QUOTE /\ ~escaped(s, first, k))
        /\ \A m \in first..(k - 1) : ~(s[m] = QUOTE /\ ~escaped(s, first, m))

\* scan_quoted raising the error of the end of the stream
scan_quoted_eos(s, L, token) ==
    LET with_stop(stop) ==
        IF stop > Len(s)
        THEN Raise("FgtConfigEosError", "unexpected end of stream",
                   read_through(s, L, stop))
        ELSE [err |-> NoError, msg |-> "", lex |-> read_through(s, L, stop),
              token |-> token \o SubSeq(s, L.i, stop)]
    IN  with_stop(next_quote(s, L.i))

\* ... and it stops at the first quote outside a pair, or at the end of the
\* stream
scan_quoted(s, L, token) ==
    LET with_stop(stop) ==
        IF stop > Len(s)
        THEN IF escaped(s, L.i, stop)
             THEN Raise("FgtConfigSyntaxError", "escape error",
                        read_through(s, L, stop))
             ELSE Raise("FgtConfigSyntaxError", "unbalanced quote",
                        read_through(s, L, stop))
        ELSE [err |-> NoError, msg |-> "", lex |-> read_through(s, L, stop),
              token |-> token \o SubSeq(s, L.i, stop)]
    IN  with_stop(next_quote(s, L.i))

\* next_token: the word branch's loop
RECURSIVE scan_word(_, _, _, _)
scan_word(s, L, c, token) ==
    IF isspace(c) \/ _is_eol_char(c)
    THEN [err |-> NoError, msg |-> "", lex |-> _unget(L, c), token |-> token]
    ELSE LET with_r(r) == scan_word(s, r.lex, r.c, Append(token, c))
         IN  with_r(_next(s, L))

\* next_token that leaves the token it returns in the slot
next_token_keeps_slot(s, L) ==
    IF L.token # NoToken
    THEN [err |-> NoError, msg |-> "", lex |-> L, token |-> L.token]
    ELSE LET with_r(r) ==
             IF is_eos_char(r.c)
             THEN [err |-> NoError, msg |-> "", lex |-> r.lex, token |-> <<>>]
             ELSE IF _is_eol_char(r.c)
             THEN [err |-> NoError, msg |-> "", lex |-> r.lex, token |-> <<r.c>>]
             ELSE IF r.c = HASH THEN scan_comment(s, r.lex, r.c, <<>>)
             ELSE IF r.c = QUOTE THEN scan_quoted(s, r.lex, <<r.c>>)
             ELSE scan_word(s, r.lex, r.c, <<>>)
         IN  with_r(_next_ns(s, L))

next_token(s, L) ==
    IF L.token # NoToken
    THEN [err |-> NoError, msg |-> "", lex |-> [L EXCEPT !.token = NoToken],
          token |-> L.token]
    ELSE LET with_r(r) ==
             IF is_eos_char(r.c)
             THEN [err |-> NoError, msg |-> "", lex |-> r.lex, token |-> <<>>]
             ELSE IF _is_eol_char(r.c)
             THEN [err |-> NoError, msg |-> "", lex |-> r.lex, token |-> <<r.c>>]
             ELSE IF r.c = HASH THEN scan_comment(s, r.lex, r.c, <<>>)
             ELSE IF r.c = QUOTE THEN scan_quoted(s, r.lex, <<r.c>>)
             ELSE scan_word(s, r.lex, r.c, <<>>)
         IN  with_r(_next_ns(s, L))

RECURSIVE next_parameters_loop(_, _, _)
next_parameters_loop(s, L, tokens) ==
    LET with_r(r) ==
        IF r.err # NoError THEN r
        ELSE IF _is_eol(r.token)
        THEN [err |-> NoError, msg |-> "", lex |-> r.lex, tokens |-> tokens]
        ELSE IF is_comment(r.token)
        THEN Raise("FgtConfigSyntaxError", "unexpected comment found", r.lex)
        ELSE next_parameters_loop(s, r.lex, Append(tokens, r.token))
    IN  with_r(next_token(s, L))

next_parameters(s, L) == next_parameters_loop(s, L, <<>>)

RECURSIVE skip_newlines(_, _)
skip_newlines(s, r) ==
    IF r.err # NoError THEN r
    ELSE IF _is_eol(r.token) /\ ~is_eos(r.token)
    THEN skip_newlines(s, next_token(s, r.lex))
    ELSE r

\* next_snl_token that returns the end of the stream to a caller that asked
\* for an error
next_snl_token_quiet(s, L, raise_eos) ==
    skip_newlines(s, next_token(s, L))

next_snl_token(s, L, raise_eos) ==
    LET with_r(r) ==
        IF r.err # NoError THEN r
        ELSE IF raise_eos /\ is_eos(r.token)
        THEN Raise("FgtConfigEosError", "unexpected end of stream", r.lex)
        ELSE r
    IN  with_r(skip_newlines(s, next_token(s, L)))

-----------------------------------------------------------------------------
(* _config.py: the configuration tree *)

\* Every node is a record of the same shape: cls names its class, items is
\* the dict of a FgtConfigBody, params the list of a FgtConfigSet.
FgtConfigSet(parameters) ==
    [cls |-> "FgtConfigSet", items |-> <<>>, params |-> parameters]

FgtConfigUnset ==
    [cls |-> "FgtConfigUnset", items |-> <<>>, params |-> <<>>]

FgtConfigObject ==
    [cls |-> "FgtConfigObject", items |-> <<>>, params |-> <<>>]

FgtConfigTable ==
    [cls |-> "FgtConfigTable", items |-> <<>>, params |-> <<>>]

\* FgtConfigRoot(cfg): a FgtConfigObject subclass built from the dict cfg
FgtConfigRoot(cfg) ==
    [cls |-> "FgtConfigRoot", items |-> cfg.items, params |-> <<>>]

\* isinstance(node, FgtConfigObject): FgtConfigRoot is a subclass
IsObject(node) == node.cls \in {"FgtConfigObject", "FgtConfigRoot", "RootConfig"}
IsTable(node) == node.cls = "FgtConfigTable"
IsSet(node) == node.cls = "FgtConfigSet"
IsUnset(node) == node.cls = "FgtConfigUnset"

\* dict: key in d, d[key], d.get(key), d[key] = value, d.keys()
DictIndex(d, key) ==
    IF \E i \in 1..Len(d) : d[i].k = key
    THEN CHOOSE i \in 1..Len(d) : d[i].k = key
    ELSE 0

DictHas(d, key) == DictIndex(d, key) # 0

DictGet(d, key) == d[DictIndex(d, key)].v

\* an existing key leaves its slot and takes the last one
DictSet_at_end(d, key, value) ==
    Append(SelectSeq(d, LAMBDA slot : slot.k # key), [k |-> key, v |-> value])

\* an existing key keeps its slot and takes the new value
DictSet(d, key, value) ==
    LET with_i(i) ==
        IF i = 0 THEN Append(d, [k |-> key, v |-> value])
        ELSE [d EXCEPT ![i] = [k |-> key, v |-> value]]
    IN  with_i(DictIndex(d, key))

DictKeys(d) == [i \in 1..Len(d) |-> d[i].k]

SetItem(node, key, value) ==
    [node EXCEPT !.items = DictSet(node.items, key, value)]

\* dict.get(key): the slot of the value (0 for None); two lookups return the
\* same instance when they return the same slot of the same dictionary
dict_get(node, key) == [err |-> NoError, msg |-> "", ref |-> DictIndex(node.items, key)]

\* bool(value) of a dictionary or a list: None and the empty ones are false
Truthy(node, ref) ==
    ref # 0 /\ (Len(node.items[ref].v.items) > 0 \/ Len(node.items[ref].v.params) > 0)

digits == <<"0", "1", "2", "3", "4", "5", "6", "7", "8", "9">>

\* str(item) of an integer
RECURSIVE str(_)
str(n) ==
    IF n < 10 THEN <<digits[n + 1]>> ELSE Append(str(n \div 10), digits[(n % 10) + 1])

\* The value None where a node is expected
NoneNode == [cls |-> "NoneType", items |-> <<>>, params |-> <<>>]

\* FgtConfigTable.__getitem__(item) with the key of the wrong quoting
__getitem__unquoted(node, item) ==
    LET with_ref(ref) ==
        IF item.type \notin {"int", "str"}
        THEN [err |-> "TypeError", msg |-> "Invalid key type"]
        ELSE IF Truthy(node, ref) /\ ~IsObject(node.items[ref].v)
        THEN [err |-> "TypeError", msg |-> "is not of type 'FgtConfigObject'"]
        ELSE [err |-> NoError, msg |-> "", ref |-> ref]
    IN  with_ref(IF item.type = "int" THEN DictIndex(node.items, str(item.value))
                 ELSE DictIndex(node.items, item.value))

\* FgtConfigTable.__getitem__(item)
__getitem__(node, item) ==
    LET with_ref(ref) ==
        IF item.type \notin {"int", "str"}
        THEN [err |-> "TypeError", msg |-> "Invalid key type"]
        ELSE IF Truthy(node, ref) /\ ~IsObject(node.items[ref].v)
        THEN [err |-> "TypeError", msg |-> "is not of type 'FgtConfigObject'"]
        ELSE [err |-> NoError, msg |-> "", ref |-> ref]
    IN  with_ref(IF item.type = "int" THEN DictIndex(node.items, str(item.value))
                 ELSE DictIndex(node.items, qus(item.value)))

\* FgtConfigTable.c_entry(key, default): self[key], and default on a KeyError;
\* value is the object returned, None when self[key] returns None
c_entry(node, key, default) ==
    LET with_r(r) ==
        IF r.err = "KeyError"
        THEN [err |-> NoError, msg |-> "", ref |-> 0, value |-> default]
        ELSE IF r.err # NoError THEN r
        ELSE [err |-> NoError, msg |-> "", ref |-> r.ref,
              value |-> IF r.ref = 0 THEN NoneNode ELSE node.items[r.ref].v]
    IN  with_r(__getitem__(node, key))

\* dict.get(key, default): the stored value and its slot, or default (slot 0)
get(node, key, default) ==
    LET with_ref(ref) ==
        [ref |-> ref, value |-> IF ref # 0 THEN node.items[ref].v ELSE default]
    IN  with_ref(DictIndex(node.items, key))

\* c_table without the test of the type
c_table_unchecked(node, key, default) ==
    LET with_value(g) ==
        [err |-> NoError, msg |-> "", ref |-> g.ref, value |-> g.value]
    IN  with_value(get(node, key, default))

\* FgtConfigObject.c_table(key, default)
c_table(node, key, default) ==
    LET with_value(g) ==
        IF g.value # NoneNode /\ ~IsTable(g.value)
        THEN [err |-> "TypeError", msg |-> "is not of type 'FgtConfigTable'"]
        ELSE [err |-> NoError, msg |-> "", ref |-> g.ref, value |-> g.value]
    IN  with_value(get(node, key, default))

\* FgtConfigObject.c_object(key, default)
c_object(node, key, default) ==
    LET with_value(g) ==
        IF g.value # NoneNode /\ ~IsObject(g.value)
        THEN [err |-> "TypeError", msg |-> "is not of type 'FgtConfigObject'"]
        ELSE [err |-> NoError, msg |-> "", ref |-> g.ref, value |-> g.value]
    IN  with_value(get(node, key, default))

\* FgtConfigObject.c_set(key, default)
c_set(node, key, default) ==
    LET with_value(g) ==
        IF g.value # NoneNode /\ ~IsSet(g.value)
        THEN [err |-> "TypeError", msg |-> "is not of type 'FgtConfigSet'"]
        ELSE [err |-> NoError, msg |-> "", ref |-> g.ref, value |-> g.value]
    IN  with_value(get(node, key, default))

\* FgtConfigObject.param(key, default): default is a string or None; an
\* empty string is false as None is, and so is an empty list
param(node, key, default) ==
    LET with_value(r) ==
        IF r.err # NoError THEN r
        ELSE IF r.value # NoneNode /\ Len(r.value.params) > 0
        THEN IF Len(r.value.params) # 1
             THEN [err |-> "ValueError",
                   msg |-> "param method is available only on SET command with one argument"]
             ELSE [err |-> NoError, msg |-> "", value |-> r.value.params[1]]
        ELSE [err |-> NoError, msg |-> "",
              value |-> IF r.value = NoneNode THEN NoToken ELSE r.value.params]
    IN  with_value(c_set(node, key,
                         IF default # NoToken /\ default # <<>>
                         THEN FgtConfigSet(<<default>>) ELSE NoneNode))

\* FgtConfigComments._config_version
_config_version_comment ==
    <<"#","c","o","n","f","i","g","-","v","e","r","s","i","o","n","=">>

RECURSIVE _config_version_loop(_, _, _)
_config_version_loop(comments, i, version) ==
    IF i > Len(comments) THEN version
    ELSE IF startswith(comments[i], _config_version_comment)
    THEN _config_version_loop(comments, i + 1,
            split(SubSeq(comments[i], Len(_config_version_comment) + 1,
                         Len(comments[i])), ":"))
    ELSE _config_version_loop(comments, i + 1, version)

_config_version(comments) ==
    _config_version_loop(comments, 1, <<(<<"?", "-", "?">>)>>)

\* FgtConfigComments.version: str.index raises ValueError when there is no '-'
version(comments) ==
    LET with_i(config_version, i) ==
        IF i = 0 THEN [err |-> "ValueError", msg |-> "substring not found", value |-> <<>>]
        ELSE [err |-> NoError, msg |-> "",
              value |-> SubSeq(config_version, i + 1, Len(config_version))]
        with_version(config_version) == with_i(config_version, find(config_version, "-", 1))
    IN  with_version(_config_version(comments)[1])

\* FgtConfigComments.model
model(comments) ==
    LET with_i(config_version, i) ==
        IF i = 0 THEN [err |-> "ValueError", msg |-> "substring not found", value |-> <<>>]
        ELSE [err |-> NoError, msg |-> "", value |-> SubSeq(config_version, 1, i - 1)]
        with_version(config_version) == with_i(config_version, find(config_version, "-", 1))
    IN  with_version(_config_version(comments)[1])

-----------------------------------------------------------------------------
(* _parser.py: FgtConfigParser *)

VDOM == <<"v","d","o","m">>
GLOBAL == <<"g","l","o","b","a","l">>
SET == <<"s","e","t">>
UNSET == <<"u","n","s","e","t">>
CONFIG == <<"c","o","n","f","i","g">>
EDIT == <<"e","d","i","t">>
NEXT == <<"n","e","x","t">>
END == <<"e","n","d">>

\* _parse_set_command that asks for one token only
_parse_set_command_key_only(s, L) ==
    LET with_r(r) ==
        IF r.err # NoError THEN r
        ELSE IF Len(r.tokens) < 1
        THEN Raise("FgtConfigSyntaxError", "invalid set command", r.lex)
        ELSE [err |-> NoError, msg |-> "", lex |-> r.lex,
              key |-> r.tokens[1], node |-> FgtConfigSet(Tail(r.tokens))]
    IN  with_r(next_parameters(s, L))

_parse_set_command(s, L) ==
    LET with_r(r) ==
        IF r.err # NoError THEN r
        ELSE IF Len(r.tokens) < 2
        THEN Raise("FgtConfigSyntaxError", "invalid set command", r.lex)
        ELSE [err |-> NoError, msg |-> "", lex |-> r.lex,
              key |-> r.tokens[1], node |-> FgtConfigSet(Tail(r.tokens))]
    IN  with_r(next_parameters(s, L))

_parse_unset_command(s, L) ==
    LET with_r(r) ==
        IF r.err # NoError THEN r
        ELSE IF Len(r.tokens) # 1
        THEN Raise("FgtConfigSyntaxError", "invalid unset command", r.lex)
        ELSE [err |-> NoError, msg |-> "", lex |-> r.lex,
              key |-> r.tokens[1], node |-> FgtConfigUnset]
    IN  with_r(next_parameters(s, L))

RECURSIVE _parse_config_command(_, _, _)
RECURSIVE _parse_table_entry(_, _, _)
RECURSIVE _parse_config(_, _)
RECURSIVE table_entry_loop(_, _, _, _, _, _)
RECURSIVE config_table_loop(_, _, _, _, _)
RECURSIVE config_object_loop(_, _, _, _, _)

_parse_config_command(entry, s, L) ==
    IF entry = SET THEN _parse_set_command(s, L)
    ELSE IF entry = UNSET THEN _parse_unset_command(s, L)
    ELSE IF entry = CONFIG THEN _parse_config(s, L)
    ELSE Raise("FgtConfigSyntaxError", "invalid entry", L)

\* table_entry_loop that does not push the end of a vdom entry back
table_entry_loop_no_push(s, L, vdom, edit_key, config, token) ==
    IF ~((token = NEXT) \/ (vdom /\ token = END))
    THEN LET with_t(r, t) ==
                 IF t.err # NoError THEN t
                 ELSE table_entry_loop(s, t.lex, vdom, edit_key,
                      SetItem(config, r.key, r.node), t.token)
             with_r(r) ==
                 IF r.err # NoError THEN r
                 ELSE with_t(r, next_snl_token(s, r.lex, TRUE))
         IN  with_r(_parse_config_command(token, s, L))
    ELSE [err |-> NoError, msg |-> "", lex |-> L,
          key |-> edit_key[1], node |-> config]

\* _parse_table_entry: the loop up to the next (or, in a vdom, end) keyword
table_entry_loop(s, L, vdom, edit_key, config, token) ==
    IF ~((token = NEXT) \/ (vdom /\ token = END))
    THEN LET with_t(r, t) ==
                 IF t.err # NoError THEN t
                 ELSE table_entry_loop(s, t.lex, vdom, edit_key,
                      SetItem(config, r.key, r.node), t.token)
             with_r(r) ==
                 IF r.err # NoError THEN r
                 ELSE with_t(r, next_snl_token(s, r.lex, TRUE))
         IN  with_r(_parse_config_command(token, s, L))
    ELSE [err |-> NoError, msg |-> "",
          lex |-> IF vdom /\ token = END THEN push_token(L, token) ELSE L,
          key |-> edit_key[1], node |-> config]

_parse_table_entry(s, L, vdom) ==
    LET with_t(p, t) ==
            IF t.err # NoError THEN t
            ELSE table_entry_loop(s, t.lex, vdom, p.tokens, FgtConfigObject, t.token)
        with_p(p) ==
            IF p.err # NoError THEN p
            ELSE IF Len(p.tokens) # 1
            THEN Raise("FgtConfigSyntaxError", "invalid table configuration", p.lex)
            ELSE with_t(p, next_snl_token(s, p.lex, TRUE))
    IN  with_p(next_parameters(s, L))

\* _parse_config: the table branch's loop
config_table_loop(s, L, config_keys, config, token) ==
    IF token # END
    THEN LET with_t(r, t) ==
                 IF t.err # NoError THEN t
                 ELSE config_table_loop(s, t.lex, config_keys,
                      SetItem(config, r.key, r.node), t.token)
             with_r(r) ==
                 IF r.err # NoError THEN r
                 ELSE with_t(r, next_snl_token(s, r.lex, TRUE))
         IN  with_r(_parse_table_entry(s, L, config_keys[1] = VDOM))
    ELSE [err |-> NoError, msg |-> "", lex |-> L,
          key |-> join(SPACE, config_keys), node |-> config]

\* _parse_config: the object branch's loop
config_object_loop(s, L, config_keys, config, token) ==
    IF token # END
    THEN LET with_t(r, t) ==
                 IF t.err # NoError THEN t
                 ELSE config_object_loop(s, t.lex, config_keys,
                      SetItem(config, r.key, r.node), t.token)
             with_r(r) ==
                 IF r.err # NoError THEN r
                 ELSE with_t(r, next_snl_token(s, r.lex, TRUE))
         IN  with_r(_parse_config_command(token, s, L))
    ELSE [err |-> NoError, msg |-> "", lex |-> L,
          key |-> join(SPACE, config_keys), node |-> config]

_parse_config(s, L) ==
    LET with_t(p, t) ==
            IF t.err # NoError THEN t
            ELSE IF t.token = EDIT
            THEN config_table_loop(s, t.lex, p.tokens, FgtConfigTable, t.token)
            ELSE config_object_loop(s, t.lex, p.tokens, FgtConfigObject, t.token)
        with_p(p) ==
            IF p.err # NoError THEN p
            ELSE IF Len(p.tokens) = 0
            THEN Raise("FgtConfigSyntaxError", "invalid config", p.lex)
            ELSE with_t(p, next_snl_token(s, p.lex, TRUE))
    IN  with_p(next_parameters(s, L))

\* FgtConfigParser._root_config_factory, and the factory of the tests
\* (lambda _, cfg: RootConfig(cfg)): a factory is known by the class it builds
DefaultFactory == "FgtConfigRoot"
Factories == {"FgtConfigRoot", "RootConfig"}

\* CallFactory with the factory that the class starts with, whatever factory
\* is registered
CallFactory_default(factory_fn, comments, cfg) ==
    LET with_ver(ver) ==
        IF ver.err # NoError THEN [err |-> ver.err, msg |-> ver.msg]
        ELSE [err |-> NoError, msg |-> "",
              root |-> [cls |-> DefaultFactory, items |-> cfg.items, params |-> <<>>]]
    IN  with_ver(version(comments))

\* factory_fn(comments.version, cfg): the argument comments.version is
\* evaluated first and may raise
CallFactory(factory_fn, comments, cfg) ==
    LET with_ver(ver) ==
        IF ver.err # NoError THEN [err |-> ver.err, msg |-> ver.msg]
        ELSE [err |-> NoError, msg |-> "",
              root |-> [cls |-> factory_fn, items |-> cfg.items, params |-> <<>>]]
    IN  with_ver(version(comments))

\* FgtConfig.__init__
FgtConfig(comments, root, vdoms) ==
    IF ~(\A i \in 1..Len(root.items) :
            IsObject(root.items[i].v) \/ IsTable(root.items[i].v))
    THEN [err |-> "ValueError", msg |-> ""]
    ELSE [err |-> NoError, msg |-> "",
          config |-> [comments |-> comments, root |-> root, vdoms |-> vdoms]]

\* multi_vdom that takes a configuration without tenants for one with
multi_vdom_no_tenant(config) == Len(config.vdoms) >= 0

multi_vdom(config) == Len(config.vdoms) > 0

\* parse: the loop over the comments and the empty lines
RECURSIVE parse_comments(_, _, _)
parse_comments(s, r, comments) ==
    IF r.err # NoError THEN r
    ELSE IF startswith(r.token, <<HASH>>)
    THEN parse_comments(s, next_snl_token(s, r.lex, FALSE), Append(comments, r.token))
    ELSE [err |-> NoError, msg |-> "", lex |-> r.lex, token |-> r.token,
          comments |-> comments]

\* parse: the loop over the entries of a vdom block
RECURSIVE parse_vdom_entries(_, _, _, _, _)
parse_vdom_entries(factory_fn, comments, items, i, vdoms_config) ==
    IF i > Len(items) THEN [err |-> NoError, msg |-> "", vdoms |-> vdoms_config]
    ELSE IF IsObject(items[i].v)
    THEN LET with_f(f) ==
             IF f.err # NoError THEN f
             ELSE parse_vdom_entries(factory_fn, comments, items, i + 1,
                                     DictSet(vdoms_config, items[i].k, f.root))
         IN  with_f(CallFactory(factory_fn, comments, items[i].v))
    ELSE [err |-> "TypeError", msg |-> "invalid type"]

\* parse: the loop over the config statements
RECURSIVE parse_statements(_, _, _, _, _, _, _)
parse_statements(s, L, factory_fn, comments, token, global_config, vdoms_config) ==
    IF is_eos(token)
    THEN [err |-> NoError, msg |-> "", lex |-> L,
          global_config |-> global_config, vdoms |-> vdoms_config]
    ELSE IF token = CONFIG
    THEN LET with_t(g, e, t) ==
                 IF t.err # NoError THEN t
                 ELSE parse_statements(s, t.lex, factory_fn, comments, t.token,
                                       g, e.vdoms)
             with_e(r, e) ==
                 IF e.err # NoError THEN [err |-> e.err, msg |-> e.msg, lex |-> r.lex]
                 ELSE with_t(IF r.key = VDOM THEN global_config
                             ELSE DictSet(global_config, r.key, r.node),
                             e, next_snl_token(s, r.lex, FALSE))
             with_r(r) ==
                 IF r.err # NoError THEN r
                 ELSE with_e(r, IF r.key = VDOM
                                THEN parse_vdom_entries(factory_fn, comments,
                                                        r.node.items, 1, vdoms_config)
                                ELSE [err |-> NoError, msg |-> "",
                                      vdoms |-> vdoms_config])
         IN  with_r(_parse_config(s, L))
    ELSE Raise("FgtConfigSyntaxError", "invalid entry", L)

parse(s, factory_fn) ==
    LET with_cfg(p, cfg) ==
            IF cfg.err # NoError THEN [err |-> cfg.err, msg |-> cfg.msg, lex |-> p.lex]
            ELSE [err |-> NoError, msg |-> "", lex |-> p.lex, config |-> cfg.config,
                  global_config |-> p.global_config]
        with_f(c, p, f) ==
            IF f.err # NoError THEN [err |-> f.err, msg |-> f.msg, lex |-> p.lex]
            ELSE with_cfg(p, FgtConfig(c.comments, f.root, p.vdoms))
        with_p(c, p) ==
            IF p.err # NoError THEN [err |-> p.err, msg |-> p.msg, lex |-> p.lex]
            ELSE IF Len(p.vdoms) # 0 /\ ~DictHas(p.global_config, GLOBAL)
            THEN [err |-> "KeyError", msg |-> "global", lex |-> p.lex]
            ELSE with_f(c, p,
                        CallFactory(factory_fn, c.comments,
                                    IF Len(p.vdoms) = 0
                                    THEN [FgtConfigObject EXCEPT !.items = p.global_config]
                                    ELSE DictGet(p.global_config, GLOBAL)))
        with_c(c) ==
            IF c.err # NoError THEN [err |-> c.err, msg |-> c.msg, lex |-> c.lex]
            ELSE with_p(c, parse_statements(s, c.lex, factory_fn, c.comments, c.token,
                                            <<>>, <<>>))
    IN  with_c(parse_comments(s, next_snl_token(s, Lexer, FALSE), <<>>))

-----------------------------------------------------------------------------
(* _config.py: traversal and serialization *)

\* traverse(key, fn, parents, data): the calls of fn, in order, each with the
\* flag, the item and the content of the stack at the call
RECURSIVE traverse(_, _, _)
RECURSIVE traverse_items(_, _, _)

\* The calls of fn so far and the stack of the parents: the state of one
\* traversal, which starts without calls
Traversal(parents) == [events |-> <<>>, parents |-> parents]

\* traverse_items that visits the last item first
traverse_items_reversed(items, i, st) ==
    IF i > Len(items) THEN st
    ELSE traverse(items[i].k, items[i].v, traverse_items(items, i + 1, st))

\* the loop over the items of a dictionary
traverse_items(items, i, st) ==
    IF i > Len(items) THEN st
    ELSE traverse_items(items, i + 1, traverse(items[i].k, items[i].v, st))

\* traverse that calls fn on exit for a set and an unset too
traverse_leaf_exit(key, node, st) ==
    LET fn(enter, s) ==
            [events |-> Append(s.events, [enter |-> enter, k |-> key, v |-> node,
                                          parents |-> s.parents]),
             parents |-> s.parents]
        append(s) ==
            [events |-> s.events,
             parents |-> Append(s.parents, [k |-> key, v |-> node])]
        pop(s) ==
            [events |-> s.events,
             parents |-> SubSeq(s.parents, 1, Len(s.parents) - 1)]
    IN  IF node.cls \in {"FgtConfigRoot", "RootConfig"}
        THEN traverse_items(node.items, 1, st)
        ELSE fn(FALSE, pop(traverse_items(node.items, 1, append(fn(TRUE, st)))))

\* traverse that leaves the node on the stack of the parents
traverse_no_pop(key, node, st) ==
    LET fn(enter, s) ==
            [events |-> Append(s.events, [enter |-> enter, k |-> key, v |-> node,
                                          parents |-> s.parents]),
             parents |-> s.parents]
        append(s) ==
            [events |-> s.events,
             parents |-> Append(s.parents, [k |-> key, v |-> node])]
    IN  IF node.cls \in {"FgtConfigRoot", "RootConfig"}
        THEN traverse_items(node.items, 1, st)
        ELSE IF IsObject(node) \/ IsTable(node)
        THEN fn(FALSE, traverse_items(node.items, 1, append(fn(TRUE, st))))
        ELSE fn(TRUE, st)

\* node.traverse(key, fn, parents, data) with a callback that records its
\* calls and the content of the stack at each: FgtConfigRoot.traverse,
\* FgtConfigBody.traverse (parents.append before the items, parents.pop after
\* them), FgtConfigSet.traverse and FgtConfigUnset.traverse
traverse(key, node, st) ==
    LET fn(enter, s) ==
            [events |-> Append(s.events, [enter |-> enter, k |-> key, v |-> node,
                                          parents |-> s.parents]),
             parents |-> s.parents]
        append(s) ==
            [events |-> s.events,
             parents |-> Append(s.parents, [k |-> key, v |-> node])]
        pop(s) ==
            [events |-> s.events,
             parents |-> SubSeq(s.parents, 1, Len(s.parents) - 1)]
    IN  IF node.cls \in {"FgtConfigRoot", "RootConfig"}
        THEN traverse_items(node.items, 1, st)
        ELSE IF IsObject(node) \/ IsTable(node)
        THEN fn(FALSE, pop(traverse_items(node.items, 1, append(fn(TRUE, st)))))
        ELSE fn(TRUE, st)

RECURSIVE walk_loop(_, _, _)

\* walk_loop that puts the children of a node before the pending items
walk_loop_children_first(pending, delimiter, yielded) ==
    IF Len(pending) = 0 THEN [err |-> NoError, msg |-> "", yielded |-> yielded]
    ELSE walk_loop([i \in 1..Len(pending[1].node.items) |->
                       [path |-> pending[1].path \o delimiter
                                 \o pending[1].node.items[i].k,
                        node |-> pending[1].node.items[i].v]]
                   \o Tail(pending),
                   delimiter, Append(yielded, pending[1]))

\* FgtConfigBody.walk: the loop over the pending items; what it yields, in
\* order
walk_loop(pending, delimiter, yielded) ==
    IF Len(pending) = 0 THEN [err |-> NoError, msg |-> "", yielded |-> yielded]
    ELSE IF IsObject(pending[1].node) \/ IsTable(pending[1].node)
    THEN walk_loop(Tail(pending)
                   \o [i \in 1..Len(pending[1].node.items) |->
                         [path |-> pending[1].path \o delimiter
                                   \o pending[1].node.items[i].k,
                          node |-> pending[1].node.items[i].v]],
                   delimiter, Append(yielded, pending[1]))
    ELSE IF IsSet(pending[1].node) \/ IsUnset(pending[1].node)
    THEN walk_loop(Tail(pending), delimiter, Append(yielded, pending[1]))
    ELSE [err |-> "TypeError", msg |-> "", yielded |-> yielded]

walk(key, node, delimiter) ==
    walk_loop(<<[path |-> key, node |-> node]>>, delimiter, <<>>)

_indent == 4

Spaces(n) == [i \in 1..n |-> SPACE]

\* entry_line writing the key of a config line twice
entry_line_key_twice(ev) ==
    IF IsSet(ev.v) THEN SET \o <<SPACE>> \o ev.k \o <<SPACE>> \o join(SPACE, ev.v.params)
    ELSE IF IsUnset(ev.v) THEN UNSET \o <<SPACE>> \o ev.k
    ELSE IF Len(ev.parents) = 0 \/ IsObject(ev.parents[Len(ev.parents)].v)
    THEN (IF ev.enter THEN CONFIG \o <<SPACE>> \o ev.k \o <<SPACE>> \o ev.k ELSE END)
    ELSE (IF ev.enter THEN EDIT \o <<SPACE>> \o ev.k ELSE NEXT)

\* make_config.append_entry: the line of one call, without the filter
entry_line(ev) ==
    IF IsSet(ev.v) THEN SET \o <<SPACE>> \o ev.k \o <<SPACE>> \o join(SPACE, ev.v.params)
    ELSE IF IsUnset(ev.v) THEN UNSET \o <<SPACE>> \o ev.k
    ELSE IF Len(ev.parents) = 0 \/ IsObject(ev.parents[Len(ev.parents)].v)
    THEN (IF ev.enter THEN CONFIG \o <<SPACE>> \o ev.k ELSE END)
    ELSE (IF ev.enter THEN EDIT \o <<SPACE>> \o ev.k ELSE NEXT)

\* item_filter(item, parents, data): a filter is known by the items it lets
\* through; None stands for no filter
NoFilter == "None"
Filters == {"no set", "no table", "top level", "nothing", "everything"}

CallFilter(item_filter, ev) ==
    CASE item_filter = "no set" -> ~IsSet(ev.v)
      [] item_filter = "no table" -> ~IsTable(ev.v)
      [] item_filter = "top level" -> Len(ev.parents) = 0
      [] item_filter = "nothing" -> FALSE
      [] item_filter = "everything" -> TRUE

\* append_entry with one level of indentation less for the closing line
append_entry_outdent(ev, item_filter, output_list) ==
    IF item_filter # NoFilter /\ ~CallFilter(item_filter, ev) THEN output_list
    ELSE Append(output_list,
                Spaces((IF ev.enter \/ Len(ev.parents) = 0 THEN Len(ev.parents)
                        ELSE Len(ev.parents) - 1) * _indent) \o entry_line(ev))

\* append_entry that skips the lines of a block with its opening line
append_entry_skip_block(ev, item_filter, output_list) ==
    IF item_filter # NoFilter
       /\ (~CallFilter(item_filter, ev)
           \/ \E n \in 1..Len(ev.parents) :
                 ~CallFilter(item_filter,
                             [enter |-> TRUE, k |-> ev.parents[n].k,
                              v |-> ev.parents[n].v,
                              parents |-> SubSeq(ev.parents, 1, n - 1)]))
    THEN output_list
    ELSE Append(output_list, Spaces(Len(ev.parents) * _indent) \o entry_line(ev))

\* make_config.append_entry
append_entry(ev, item_filter, output_list) ==
    IF item_filter # NoFilter /\ ~CallFilter(item_filter, ev) THEN output_list
    ELSE Append(output_list, Spaces(Len(ev.parents) * _indent) \o entry_line(ev))

RECURSIVE append_entries(_, _, _, _)
append_entries(events, i, item_filter, output_list) ==
    IF i > Len(events) THEN output_list
    ELSE append_entries(events, i + 1, item_filter,
                        append_entry(events[i], item_filter, output_list))

\* make_config: the lines of one traversal appended to output
emit(root, item_filter, output) ==
    append_entries(traverse(<<>>, root, Traversal(<<>>)).events, 1, item_filter, output)

RECURSIVE vdom_names(_, _, _)
vdom_names(vdoms, i, output) ==
    IF i > Len(vdoms) THEN output
    ELSE vdom_names(vdoms, i + 1,
                    output \o <<EDIT \o <<SPACE>> \o vdoms[i].k, NEXT>>)

RECURSIVE vdom_sections(_, _, _, _)
vdom_sections(vdoms, i, item_filter, output) ==
    IF i > Len(vdoms) THEN output
    ELSE vdom_sections(vdoms, i + 1, item_filter,
            emit(vdoms[i].v, item_filter,
                 output \o <<CONFIG \o <<SPACE>> \o VDOM,
                             EDIT \o <<SPACE>> \o vdoms[i].k>>)
            \o <<END, <<>> >>)

make_config(config, item_filter) ==
    IF multi_vdom(config)
    THEN vdom_sections(config.vdoms, 1, item_filter,
            emit(config.root, item_filter,
                 vdom_names(config.vdoms, 1, << <<>>, CONFIG \o <<SPACE>> \o VDOM >>)
                 \o <<END, <<>>, CONFIG \o <<SPACE>> \o GLOBAL>>)
            \o <<END, <<>> >>)
    ELSE emit(config.root, item_filter, <<>>)

\* write(file, include_comments, item_filter, data): what is written to the
\* file
write_lines(config, include_comments, lines) ==
    (IF include_comments /\ Len(config.comments) > 0
     THEN join(EOL, config.comments) \o <<EOL>> ELSE <<>>)
    \o join(EOL, lines) \o <<EOL>>

write(config, include_comments, item_filter) ==
    write_lines(config, include_comments, make_config(config, item_filter))

-----------------------------------------------------------------------------
(* The documents handed to parse *)

\* A line of a document: its text, and what its author means by it
\* (kind, and the key of a config or edit line).
Words(tokens) == join(SPACE, tokens)
Line(kind, key, indent, tokens) ==
    [kind |-> kind, key |-> key, text |-> Spaces(indent) \o Words(tokens)]

Wa == <<"a">>
Wb == <<"b">>
Wc == <<"c">>
Wp == <<"p">>
Wq == <<"q">>
Wv == <<"v">>
Ww == <<"w">>
Wx == <<"x">>
Wz == <<"z">>
W1 == <<"1">>
Qx == <<QUOTE, "x", QUOTE>>
Qvw == <<QUOTE, "v", SPACE, "w", QUOTE>>
VersionComment == _config_version_comment \o <<"F", "-", "5", ":", "x">>
VersionNoDash == _config_version_comment \o <<"F">>

Blank == Line("blank", <<>>, 0, <<>>)

\* The lines an edit may put into a document
Vocabulary ==
    { Line("config", Wa, 0, <<CONFIG, Wa>>),
      Line("config", VDOM, 0, <<CONFIG, VDOM>>),
      Line("config", GLOBAL, 0, <<CONFIG, GLOBAL>>),
      Line("config", Words(<<VDOM, Wx>>), 0, <<CONFIG, VDOM, Wx>>),
      Line("edit", W1, 0, <<EDIT, W1>>),
      Line("next", <<>>, 0, <<NEXT>>),
      Line("end", <<>>, 0, <<END>>),
      Line("set", Wp, 0, <<SET, Wp, Wv>>),
      Line("set", Wp, 0, <<SET, Wp, <<>>, Ww>>),
      Blank,
      Line("comment", <<>>, 0, <<(<<HASH, "c">>)>>),
      Line("comment", <<>>, 0, <<VersionNoDash>>),
      Line("comment", <<>>, 0, <<(<<HASH, SPACE, "c", SPACE>>)>>),
      Line("inline", <<>>, 0, <<SET, Wp, Wv, <<HASH, "c">> >>),
      Line("openquote", <<>>, 0, <<SET, Wp, <<QUOTE, "v">> >>),
      Line("badset", <<>>, 0, <<SET, Wp>>) }

\* The documents the edits start from: the empty one, nested objects under a
\* version comment, a table, and configurations with a tenant
EmptyDocument == <<>>

ObjectDocument ==
    << Line("comment", <<>>, 0, <<VersionComment>>),
       Line("config", Wa, 0, <<CONFIG, Wa>>),
       Line("set", Wp, 4, <<SET, Wp, Wv>>),
       Line("config", Words(<<Wb, Wc>>), 4, <<CONFIG, Wb, Wc>>),
       Line("unset", Wq, 8, <<UNSET, Wq>>),
       Line("end", <<>>, 4, <<END>>),
       Line("end", <<>>, 0, <<END>>) >>

TableDocument ==
    << Line("config", Wa, 0, <<CONFIG, Wa>>),
       Line("edit", W1, 4, <<EDIT, W1>>),
       Line("set", Wp, 8, <<SET, Wp, Qvw, Wz>>),
       Line("next", <<>>, 4, <<NEXT>>),
       Line("edit", Qx, 4, <<EDIT, Qx>>),
       Line("next", <<>>, 4, <<NEXT>>),
       Line("end", <<>>, 0, <<END>>) >>

VdomDocument ==
    << Line("config", VDOM, 0, <<CONFIG, VDOM>>),
       Line("edit", W1, 0, <<EDIT, W1>>),
       Line("next", <<>>, 0, <<NEXT>>),
       Line("end", <<>>, 0, <<END>>),
       Line("config", GLOBAL, 0, <<CONFIG, GLOBAL>>),
       Line("config", Wa, 0, <<CONFIG, Wa>>),
       Line("end", <<>>, 0, <<END>>),
       Line("end", <<>>, 0, <<END>>),
       Line("config", VDOM, 0, <<CONFIG, VDOM>>),
       Line("edit", W1, 0, <<EDIT, W1>>),
       Line("config", Wb, 0, <<CONFIG, Wb>>),
       Line("set", Wp, 4, <<SET, Wp, Wv>>),
       Line("end", <<>>, 0, <<END>>),
       Line("end", <<>>, 0, <<END>>) >>

\* A configuration whose tenant is a block of the vdom block, not an entry
VdomObjectDocument ==
    << Line("config", VDOM, 0, <<CONFIG, VDOM>>),
       Line("config", Wa, 4, <<CONFIG, Wa>>),
       Line("end", <<>>, 4, <<END>>),
       Line("end", <<>>, 0, <<END>>),
       Line("config", GLOBAL, 0, <<CONFIG, GLOBAL>>),
       Line("end", <<>>, 0, <<END>>) >>

\* A table with a comment between two of its entries
CommentedTableDocument ==
    << Line("config", Wa, 0, <<CONFIG, Wa>>),
       Line("edit", W1, 4, <<EDIT, W1>>),
       Line("next", <<>>, 4, <<NEXT>>),
       Line("comment", <<>>, 0, <<(<<HASH, "c">>)>>),
       Line("end", <<>>, 0, <<END>>),
       Line("next", <<>>, 4, <<NEXT>>),
       Line("end", <<>>, 0, <<END>>) >>

Documents ==
    {EmptyDocument, ObjectDocument, TableDocument, VdomDocument, VdomObjectDocument,
     CommentedTableDocument}

\* The text of a document: its lines joined by newlines
TextOf(d) == join(EOL, [i \in 1..Len(d) |-> d[i].text])

MaxEdits == 1
MaxCycles == 2

-----------------------------------------------------------------------------
(* The callers of the parser and of the serializer *)

NoResult == [err |-> NoError, msg |-> "none"]
NoCall == [op |-> "none"]

Init ==
    /\ doc \in Documents
    /\ edits = 0
    /\ stream = <<>>
    /\ root_config_factory = DefaultFactory
    /\ pc = "edit"
    /\ result = NoResult
    /\ config_lines = <<>>
    /\ text = <<>>
    /\ how = "none"
    /\ cycle = 0
    /\ arg = <<>>
    /\ quoted = <<>>
    /\ unquoted = <<>>
    /\ table = FgtConfigTable
    /\ call = NoCall
    /\ found = NoResult

InsertLine(i, l) ==
    /\ pc = "edit"
    /\ edits < MaxEdits
    /\ doc' = SubSeq(doc, 1, i - 1) \o <<l>> \o SubSeq(doc, i, Len(doc))
    /\ edits' = edits + 1
    /\ UNCHANGED <<stream, root_config_factory, pc, result, config_lines, text,
                   how, cycle, arg, quoted, unquoted, table, call, found>>

DeleteLine(i) ==
    /\ pc = "edit"
    /\ edits < MaxEdits
    /\ doc' = SubSeq(doc, 1, i - 1) \o SubSeq(doc, i + 1, Len(doc))
    /\ edits' = edits + 1
    /\ UNCHANGED <<stream, root_config_factory, pc, result, config_lines, text,
                   how, cycle, arg, quoted, unquoted, table, call, found>>

ReplaceLine(i, l) ==
    /\ pc = "edit"
    /\ edits < MaxEdits
    /\ doc[i] # l
    /\ doc' = [doc EXCEPT ![i] = l]
    /\ edits' = edits + 1
    /\ UNCHANGED <<stream, root_config_factory, pc, result, config_lines, text,
                   how, cycle, arg, quoted, unquoted, table, call, found>>

\* parse_string(config_value) on the document
parse_string ==
    /\ pc = "edit"
    /\ stream' = TextOf(doc)
    /\ result' = parse(stream', root_config_factory)
    /\ pc' = "parsed"
    /\ UNCHANGED <<doc, edits, root_config_factory, config_lines, text, how,
                   cycle, arg, quoted, unquoted, table, call, found>>

\* str(config): FgtConfig.__repr__
Repr ==
    /\ pc = "parsed"
    /\ result.err = NoError
    /\ config_lines' = make_config(result.config, NoFilter)
    /\ text' = join(EOL, config_lines')
    /\ how' = "repr"
    /\ pc' = "written"
    /\ UNCHANGED <<doc, edits, stream, root_config_factory, result, cycle,
                   arg, quoted, unquoted, table, call, found>>

\* config.write(file, include_comments)
Write(include_comments) ==
    /\ pc = "parsed"
    /\ result.err = NoError
    /\ config_lines' = make_config(result.config, NoFilter)
    /\ text' = write_lines(result.config, include_comments, config_lines')
    /\ how' = (IF include_comments THEN "write_comments" ELSE "write")
    /\ pc' = "written"
    /\ UNCHANGED <<doc, edits, stream, root_config_factory, result, cycle,
                   arg, quoted, unquoted, table, call, found>>

\* parse_string on the text of the last serialization
Reparse ==
    /\ pc = "written"
    /\ cycle < MaxCycles
    /\ stream' = text
    /\ result' = parse(text, root_config_factory)
    /\ cycle' = cycle + 1
    /\ pc' = "parsed"
    /\ UNCHANGED <<doc, edits, root_config_factory, config_lines, text, how,
                   arg, quoted, unquoted, table, call, found>>

Next ==
    \/ \E i \in 1..(Len(doc) + 1), l \in Vocabulary : InsertLine(i, l)
    \/ \E i \in 1..Len(doc) : DeleteLine(i)
    \/ \E i \in 1..Len(doc), l \in Vocabulary : ReplaceLine(i, l)
    \/ parse_string
    \/ Repr
    \/ \E include_comments \in BOOLEAN : Write(include_comments)
    \/ Reparse

Spec == Init /\ [][Next]_vars

-----------------------------------------------------------------------------
(* What the author of a document means by it: the grammar of the parser's
   docstring, read line by line *)

Frame(kind, key, vdom, fresh) ==
    [kind |-> kind, key |-> key, vdom |-> vdom, fresh |-> fresh]

\* fault: the first line that the grammar does not allow, and where it is;
\* stack: the blocks and entries still open; tops: the keys of the top-level
\* blocks; tenants: the entries of the top-level vdom tables; kids: the
\* children of the last top-level global block; dual: the entries of vdom
\* tables that an end has closed together with their table
NoOutline ==
    [fault |-> "none", at |-> 0, stack |-> <<>>, stmts |-> FALSE, tops |-> <<>>,
     tenants |-> <<>>, kids |-> <<>>, dual |-> 0]

Fault(o, what, n) == [o EXCEPT !.fault = what, !.at = n]

Used(stack) ==
    IF Len(stack) = 0 THEN stack
    ELSE [stack EXCEPT ![Len(stack)].fresh = FALSE]

Pop(stack, n) == SubSeq(stack, 1, Len(stack) - n)

InGlobal(o) == Len(o.stack) = 1 /\ o.stack[1].key = GLOBAL

OutlineStep(o, l, n) ==
    LET depth == Len(o.stack)
        top == o.stack[depth]
    IN
    CASE l.kind = "blank" -> o
      [] l.kind = "comment" ->
            IF o.stmts THEN Fault(o, "comment", n) ELSE o
      [] l.kind = "config" ->
            IF depth > 0 /\ top.kind = "table" THEN Fault(o, "config", n)
            ELSE [o EXCEPT
                    !.stack = Append(Used(o.stack),
                                     Frame("object", l.key, FALSE, TRUE)),
                    !.stmts = TRUE,
                    !.tops = IF depth = 0 THEN Append(o.tops, l.key) ELSE o.tops,
                    !.kids = IF depth = 0 /\ l.key = GLOBAL THEN <<>>
                             ELSE IF InGlobal(o) THEN Append(o.kids, l.key)
                             ELSE o.kids]
      [] l.kind = "edit" ->
            IF depth = 0 THEN Fault(o, "edit", n)
            ELSE IF (top.kind = "object" /\ top.fresh) \/ top.kind = "table"
            THEN LET isvdom == top.key = VDOM IN
                 [o EXCEPT
                    !.stack = Append([o.stack EXCEPT ![depth] =
                                         Frame("table", top.key, isvdom, FALSE)],
                                     Frame("entry", l.key, isvdom, TRUE)),
                    !.tenants = IF depth = 1 /\ isvdom
                                THEN Append(o.tenants, l.key) ELSE o.tenants,
                    !.kids = IF InGlobal(o) THEN Append(o.kids, l.key)
                             ELSE o.kids]
            ELSE Fault(o, "edit", n)
      [] l.kind = "next" ->
            IF depth > 0 /\ top.kind = "entry"
            THEN [o EXCEPT !.stack = Pop(o.stack, 1)]
            ELSE Fault(o, "next", n)
      [] l.kind = "end" ->
            IF depth = 0 THEN Fault(o, "end", n)
            ELSE IF top.kind \in {"object", "table"}
            THEN [o EXCEPT !.stack = Pop(o.stack, 1)]
            ELSE IF top.vdom
            THEN [o EXCEPT !.stack = Pop(o.stack, 2), !.dual = o.dual + 1]
            ELSE Fault(o, "end of entry", n)
      [] l.kind \in {"set", "unset"} ->
            IF depth > 0 /\ top.kind \in {"object", "entry"}
            THEN [o EXCEPT !.stack = Used(o.stack),
                           !.kids = IF InGlobal(o) THEN Append(o.kids, l.key)
                                    ELSE o.kids]
            ELSE Fault(o, l.kind, n)
      [] OTHER -> Fault(o, l.kind, n)

RECURSIVE OutlineFrom(_, _, _)
OutlineFrom(d, n, o) ==
    IF n > Len(d) \/ o.fault # "none" THEN o
    ELSE OutlineFrom(d, n + 1, OutlineStep(o, d[n], n))

Outline(d) == OutlineFrom(d, 1, NoOutline)

\* Every line is allowed where it stands
WellFormed(d) == Outline(d).fault = "none"

\* ... and every block is closed
Complete(d) == WellFormed(d) /\ Outline(d).stack = <<>>

\* The elements of a sequence, each at its first place
RECURSIVE Distinct(_)
Distinct(q) ==
    IF q = <<>> THEN <<>>
    ELSE LET front == Distinct(SubSeq(q, 1, Len(q) - 1))
             last == q[Len(q)]
         IN  IF \E i \in 1..Len(front) : front[i] = last THEN front
             ELSE Append(front, last)

\* The lines of a text, without the whitespace around each and without the
\* empty lines at the end
RECURSIVE DropEmptyTail(_)
DropEmptyTail(ls) ==
    IF ls # <<>> /\ ls[Len(ls)] = <<>> THEN DropEmptyTail(SubSeq(ls, 1, Len(ls) - 1))
    ELSE ls

StrippedLines(t) ==
    LET ls == split(t, EOL) IN DropEmptyTail([i \in 1..Len(ls) |-> strip(ls[i])])

SyntaxErrors == {"FgtConfigSyntaxError", "FgtConfigEosError"}
OtherErrors == {"KeyError", "TypeError", "ValueError"}

-----------------------------------------------------------------------------
(* Round trip *)

\* C1 as stated: for any document that parses, the lines written by
\* write(parse(D)) with the comments are the lines of D, line for line, when
\* the whitespace around each line is ignored.
C1_RoundTripAnyDocument ==
    (pc = "written" /\ cycle = 0 /\ how = "write_comments")
        => StrippedLines(text) = StrippedLines(stream)

\* C1, amended: when D is itself a text that the serializer produced, the
\* lines written by write(parse(D)) with the comments are the lines of D,
\* line for line, when the whitespace around each line is ignored.
C1_RoundTripOfSerializedText ==
    (pc = "written" /\ cycle >= 1 /\ how = "write_comments")
        => StrippedLines(text) = StrippedLines(stream)

C1_Witness ==
    /\ pc = "written" /\ cycle >= 1 /\ how = "write_comments"
    /\ multi_vdom(result.config)
    /\ Len(result.config.comments) > 0
    /\ StrippedLines(text) = StrippedLines(stream)
    /\ Len(StrippedLines(text)) > 10

\* C2 as stated: a document that parses is serialized to a text that parses,
\* and the lines made from the parse of that text are the lines it was made
\* of, in every further cycle too.
C2_StableFixedPoint ==
    (pc = "parsed" /\ cycle >= 1)
        => /\ result.err = NoError
           /\ make_config(result.config, NoFilter) = config_lines

-----------------------------------------------------------------------------
(* Errors *)

\* C4 as stated: parse returns a configuration or raises FgtConfigSyntaxError
\* or its subclass FgtConfigEosError; no KeyError, TypeError or ValueError
\* leaves parse.
C4_OnlySyntaxErrors ==
    pc = "parsed" => result.err \in SyntaxErrors \cup {NoError}

\* The document ends inside a quoted string: all its lines are allowed but
\* the last, which opens a quoted string inside a block and does not close it
EndsInQuote(d) ==
    LET o == Outline(d) IN
    o.fault = "openquote" /\ o.at = Len(d) /\ o.stack # <<>>

\* parse has read the stream to its end
ReadToEnd == result.lex.i > Len(stream)

\* C8 as stated: when the stream ends inside a quoted string, parse raises
\* FgtConfigEosError.
C8_UnterminatedQuoteRaisesEos ==
    (pc = "parsed" /\ cycle = 0 /\ EndsInQuote(doc) /\ ReadToEnd)
        => result.err = "FgtConfigEosError"

\* C8, amended: when the stream ends inside a quoted string, next_token and
\* parse raise FgtConfigSyntaxError itself ("unbalanced quote", or "escape
\* error" when the stream ends right after a backslash), not its subclass
\* FgtConfigEosError.
C8_UnterminatedQuoteRaisesSyntaxError ==
    /\ (pc = "parsed" /\ cycle = 0 /\ EndsInQuote(doc) /\ ReadToEnd)
          => (result.err = "FgtConfigSyntaxError" /\ result.msg = "unbalanced quote")
    /\ LET r == next_token(<<QUOTE, "v", BACKSLASH>>, Lexer) IN
       r.err = "FgtConfigSyntaxError" /\ r.msg = "escape error"

C8_Witness ==
    /\ pc = "parsed" /\ cycle = 0 /\ EndsInQuote(doc) /\ ReadToEnd
    /\ Len(Outline(doc).stack) >= 2
    /\ result.err = "FgtConfigSyntaxError"
    /\ result.msg = "unbalanced quote"

\* The document ends in an open block
EndsInBlock(d) == WellFormed(d) /\ Outline(d).stack # <<>>

\* ... or in an open block after a last set statement that has no value
EndsInBlockOrStatement(d) ==
    LET o == Outline(d) IN
    /\ o.stack # <<>>
    /\ o.fault = "none" \/ (o.fault = "badset" /\ o.at = Len(d))

\* C9 as stated: whenever the input ends while a config block or an edit
\* entry is still open, parse raises FgtConfigEosError.
C9_OpenBlockRaisesEos ==
    (pc = "parsed" /\ cycle = 0 /\ EndsInBlockOrStatement(doc) /\ ReadToEnd)
        => result.err = "FgtConfigEosError"

\* C9, amended: whenever the input ends, after complete statements only,
\* while a config block or an edit entry is still open, parse returns no
\* configuration, raises no plain FgtConfigSyntaxError, and raises
\* FgtConfigEosError when it has read the input to its end.
C9_OpenBlockAfterStatementsRaisesEos ==
    (pc = "parsed" /\ cycle = 0 /\ EndsInBlock(doc))
        => /\ result.err \notin {NoError, "FgtConfigSyntaxError"}
           /\ ReadToEnd => result.err = "FgtConfigEosError"

C9_Witness ==
    /\ pc = "parsed" /\ cycle = 0 /\ EndsInBlock(doc)
    /\ Len(Outline(doc).stack) >= 2
    /\ Outline(doc).stack[Len(Outline(doc).stack)].kind = "entry"
    /\ ReadToEnd
    /\ result.err = "FgtConfigEosError"

-----------------------------------------------------------------------------
(* Tenants *)

Tenants(d) == Outline(d).tenants

\* The keys that parse is to find at the top level, the vdom blocks aside
TopKeys(d) == Distinct(SelectSeq(Outline(d).tops, LAMBDA k : k # VDOM))

\* The document declares tenants in a vdom block and has a global block
TenantDocument(d) ==
    /\ Complete(d)
    /\ Tenants(d) # <<>>
    /\ \E i \in 1..Len(Outline(d).tops) : Outline(d).tops[i] = GLOBAL

RootClasses == {"FgtConfigRoot", "RootConfig"}

\* C5 as stated: parsing a document with a vdom block that declares
\* tenants, a global block and the blocks of the tenants returns a
\* configuration whose multi_vdom is true, whose root holds the children of
\* the global block and nothing else, and whose vdoms has a root for every
\* declared tenant.
C5_TenantDetection ==
    (pc = "parsed" /\ cycle = 0 /\ TenantDocument(doc))
        => /\ result.err = NoError
           /\ multi_vdom(result.config)
           /\ result.config.root.cls \in RootClasses
           /\ DictKeys(result.config.root.items) = Distinct(Outline(doc).kids)
           /\ \A i \in 1..Len(Tenants(doc)) :
                 /\ DictHas(result.config.vdoms, Tenants(doc)[i])
                 /\ DictGet(result.config.vdoms, Tenants(doc)[i]).cls \in RootClasses

\* C6: in a vdom block an entry that an end follows, with no next, closes
\* with its block: parse raises no syntax error, and when it returns it has
\* taken the pushed back end, read the whole document and found every
\* top-level block, those after the vdom block too.
C6_EndClosesVdomEntryAndBlock ==
    (pc = "parsed" /\ cycle = 0 /\ Complete(doc) /\ Outline(doc).dual > 0)
        => /\ result.err \notin SyntaxErrors
           /\ result.err = NoError =>
                 /\ result.lex.token = NoToken
                 /\ ReadToEnd
                 /\ DictKeys(result.global_config) = TopKeys(doc)
                 /\ \A i \in 1..Len(Tenants(doc)) :
                       DictHas(result.config.vdoms, Tenants(doc)[i])

C6_Witness ==
    /\ pc = "parsed" /\ cycle = 0 /\ Complete(doc)
    /\ Outline(doc).dual >= 2
    /\ result.err = NoError
    /\ result.lex.token = NoToken
    /\ DictKeys(result.global_config) = <<GLOBAL>>
    /\ DictKeys(result.config.root.items) = <<Wa>>
    /\ DictKeys(result.config.vdoms) = <<W1>>

\* C7 as stated: in a table whose key, its tokens joined by a space, is not
\* vdom, an entry that an end closes raises FgtConfigSyntaxError.
C7_EndClosesNoOtherEntry ==
    (pc = "parsed" /\ cycle = 0 /\ Outline(doc).fault = "end of entry"
        /\ result.err \notin OtherErrors)
        => result.err = "FgtConfigSyntaxError"

-----------------------------------------------------------------------------
(* The callers of qus and uqs *)

MaxLen == 4

QuoteAlphabet == {"a", QUOTE, BACKSLASH}

Strings(n) == UNION {[1..m -> QuoteAlphabet] : m \in 0..n}

InitQuote ==
    /\ arg \in Strings(MaxLen)
    /\ pc = "string"
    /\ quoted = <<>>
    /\ unquoted = <<>>
    /\ doc = <<>>
    /\ edits = 0
    /\ stream = <<>>
    /\ root_config_factory = DefaultFactory
    /\ result = NoResult
    /\ config_lines = <<>>
    /\ text = <<>>
    /\ how = "none"
    /\ cycle = 0
    /\ table = FgtConfigTable
    /\ call = NoCall
    /\ found = NoResult

Qus ==
    /\ pc = "string"
    /\ quoted' = qus(arg)
    /\ pc' = "quoted"
    /\ UNCHANGED <<doc, edits, stream, root_config_factory, result, config_lines,
                   text, how, cycle, arg, unquoted, table, call, found>>

Uqs ==
    /\ pc = "quoted"
    /\ unquoted' = uqs(quoted)
    /\ pc' = "unquoted"
    /\ UNCHANGED <<doc, edits, stream, root_config_factory, result, config_lines,
                   text, how, cycle, arg, quoted, table, call, found>>

NextQuote == Qus \/ Uqs

SpecQuote == InitQuote /\ [][NextQuote]_vars

\* C3: for every string x, quotes and backslashes in it or not, uqs(qus(x))
\* is x, and qus(uqs(s)) is s for s = qus(x).
C3_QuotingSymmetry ==
    pc = "unquoted" => (unquoted = arg /\ qus(unquoted) = quoted)

C3_Witness ==
    /\ pc = "unquoted"
    /\ unquoted = arg
    /\ Len(arg) = MaxLen
    /\ arg[Len(arg)] = BACKSLASH
    /\ \E i \in 1..(Len(arg) - 1) : arg[i] = BACKSLASH /\ arg[i + 1] = QUOTE
    /\ \E i \in 1..(Len(arg) - 1) : arg[i] = QUOTE /\ arg[i + 1] = BACKSLASH

-----------------------------------------------------------------------------
(* The callers of the lookups of a table *)

MaxName == 3

\* The quoted tokens of at most MaxName characters between the quotes: what
\* the lexer reads as one token
QuotedTokens ==
    {t \in {<<QUOTE>> \o b \o <<QUOTE>> : b \in Strings(MaxName)} :
        LET r == next_token(t, Lexer) IN
        r.err = NoError /\ r.token = t /\ r.lex.i > Len(t)}

\* The document of a table t with an entry for a token, and a second entry
TableText(token) ==
    join(EOL, << Words(<<CONFIG, <<"t">> >>),
                 Words(<<EDIT, token>>),
                 Words(<<SET, Wp, Wv>>),
                 NEXT,
                 Words(<<EDIT, <<QUOTE, "b", QUOTE>> >>),
                 NEXT,
                 END >>)

\* The tokens of an edit that are typed without quotes
BareTokens == {W1, <<"1", "2">>, Wa}

\* The arguments of the lookups: the strings, the decimal strings of some
\* integers, and these integers
StrItems ==
    {[type |-> "str", value |-> v] : v \in Strings(MaxName) \cup {W1, <<"1", "2">>}}
IntItems == {[type |-> "int", value |-> n] : n \in {1, 12}}

\* The defaults of c_entry: None when the caller gives none, or an object
EntryDefaults ==
    {NoneNode,
     [cls |-> "FgtConfigObject", items |-> <<[k |-> Wp, v |-> FgtConfigSet(<<Wx>>)]>>,
      params |-> <<>>]}

InitTable ==
    /\ \E token \in QuotedTokens \cup BareTokens :
          /\ stream = TableText(token)
          /\ result = parse(stream, DefaultFactory)
          /\ table = DictGet(result.config.root.items, <<"t">>)
    /\ pc = "table"
    /\ call = NoCall
    /\ found = NoResult
    /\ doc = <<>>
    /\ edits = 0
    /\ root_config_factory = DefaultFactory
    /\ config_lines = <<>>
    /\ text = <<>>
    /\ how = "none"
    /\ cycle = 0
    /\ arg = <<>>
    /\ quoted = <<>>
    /\ unquoted = <<>>

\* table[item]
GetItem(item) ==
    /\ pc = "table"
    /\ call' = [op |-> "__getitem__", item |-> item]
    /\ found' = __getitem__(table, item)
    /\ pc' = "looked"
    /\ UNCHANGED <<doc, edits, stream, root_config_factory, result, config_lines,
                   text, how, cycle, arg, quoted, unquoted, table>>

\* table.c_entry(key, default)
CEntry(key, default) ==
    /\ pc = "table"
    /\ call' = [op |-> "c_entry", item |-> key, default |-> default]
    /\ found' = c_entry(table, key, default)
    /\ pc' = "looked"
    /\ UNCHANGED <<doc, edits, stream, root_config_factory, result, config_lines,
                   text, how, cycle, arg, quoted, unquoted, table>>

\* table.get(key) with the raw token of an entry
Get(key) ==
    /\ pc = "table"
    /\ call' = [op |-> "get", item |-> [type |-> "str", value |-> key]]
    /\ found' = dict_get(table, key)
    /\ pc' = "looked"
    /\ UNCHANGED <<doc, edits, stream, root_config_factory, result, config_lines,
                   text, how, cycle, arg, quoted, unquoted, table>>

NextTable ==
    \/ \E item \in StrItems : GetItem(item)
    \/ \E item \in IntItems : GetItem(item)
    \/ \E key \in StrItems, default \in EntryDefaults : CEntry(key, default)
    \/ \E key \in IntItems, default \in EntryDefaults : CEntry(key, default)
    \/ \E key \in QuotedTokens : Get(key)

SpecTable == InitTable /\ [][NextTable]_vars

\* The entry of the table that an edit with a quoted token has made, and the
\* lookup is by the name that the token quotes
ByBareName(token) ==
    /\ pc = "looked"
    /\ call.op \in {"c_entry", "__getitem__"}
    /\ call.item.type = "str"
    /\ token \in QuotedTokens
    /\ DictHas(table.items, token)
    /\ call.item.value = uqs(token)

\* C10 as stated: for the entry that edit "name" has made, the lookup by the
\* bare name, c_entry(name) or table[name], returns the object that the
\* lookup by the raw token, get('"name"'), returns.
C10_BareNameFindsQuotedEntry ==
    \A i \in 1..Len(table.items) :
        ByBareName(table.items[i].k)
            => /\ found.err = NoError
               /\ found.ref = i
               /\ found.ref = dict_get(table, table.items[i].k).ref

\* C10, amended: for the entry that edit T has made, T being the quoting that
\* qus makes of a name, the lookup by the name, c_entry(name) or table[name],
\* returns the object that the lookup by the raw token, get(T), returns.
C10_BareNameFindsCanonicalEntry ==
    \A i \in 1..Len(table.items) :
        (ByBareName(table.items[i].k) /\ qus(uqs(table.items[i].k)) = table.items[i].k)
            => /\ found.err = NoError
               /\ found.ref = i
               /\ found.ref = dict_get(table, table.items[i].k).ref

C10_Witness ==
    /\ ByBareName(table.items[1].k)
    /\ table.items[1].k = <<QUOTE, BACKSLASH, QUOTE, "a", QUOTE>>
    /\ call.item.value = <<QUOTE, "a">>
    /\ call.op = "c_entry"
    /\ found.ref = 1
    /\ dict_get(table, table.items[1].k).ref = 1

-----------------------------------------------------------------------------
(* Integer and string keys of a table *)

\* C11 as stated: for the entry that edit n has made, n a bare integer,
\* table[n] finds the entry and table[str(n)] returns the same object.
C11_IntAndStrFindSameEntry ==
    (/\ pc = "looked"
     /\ call.op = "__getitem__"
     /\ call.item.type = "int"
     /\ DictHas(table.items, str(call.item.value)))
        => /\ found.err = NoError
           /\ found.ref = DictIndex(table.items, str(call.item.value))
           /\ __getitem__(table, [type |-> "str", value |-> str(call.item.value)])
                 = found

-----------------------------------------------------------------------------
(* The callers of traverse and walk *)

\* The roots of a configuration, and the nodes a caller starts from: a root,
\* or a section of a root under its key
Roots(config) ==
    {config.root} \cup {config.vdoms[i].v : i \in 1..Len(config.vdoms)}

Starts(config) ==
    {[k |-> <<"r">>, v |-> r] : r \in Roots(config)}
    \cup UNION {{r.items[i] : i \in 1..Len(r.items)} : r \in Roots(config)}

\* node.traverse(key, fn, deque(), None) with a callback that records its
\* calls; parents is the stack when traverse has returned
Traverse(key, node) ==
    /\ pc = "parsed"
    /\ call' = [op |-> "traverse", key |-> key, node |-> node]
    /\ LET with_st(st) ==
               found' = [err |-> NoError, msg |-> "", events |-> st.events,
                         parents |-> st.parents]
       IN  with_st(traverse(key, node, Traversal(<<>>)))
    /\ pc' = "traversed"
    /\ UNCHANGED <<doc, edits, stream, root_config_factory, result, config_lines,
                   text, how, cycle, arg, quoted, unquoted, table>>

\* list(node.walk(key, delimiter)): walk is a method of objects and tables
Walk(key, node, delimiter) ==
    /\ pc = "parsed"
    /\ IsObject(node) \/ IsTable(node)
    /\ call' = [op |-> "walk", key |-> key, node |-> node, delimiter |-> delimiter]
    /\ found' = walk(key, node, delimiter)
    /\ pc' = "walked"
    /\ UNCHANGED <<doc, edits, stream, root_config_factory, result, config_lines,
                   text, how, cycle, arg, quoted, unquoted, table>>

Delimiters == {<<"/">>, <<>>}

NextTree ==
    \/ \E i \in 1..(Len(doc) + 1), l \in Vocabulary : InsertLine(i, l)
    \/ \E i \in 1..Len(doc) : DeleteLine(i)
    \/ \E i \in 1..Len(doc), l \in Vocabulary : ReplaceLine(i, l)
    \/ parse_string
    \/ /\ pc = "parsed"
       /\ result.err = NoError
       /\ \E start \in Starts(result.config) : Traverse(start.k, start.v)
    \/ /\ pc = "parsed"
       /\ result.err = NoError
       /\ \E start \in Starts(result.config), delimiter \in Delimiters :
             Walk(start.k, start.v, delimiter)

SpecTree == Init /\ [][NextTree]_vars

\* The tree under a start: the start is the only child of a node above it,
\* and a node is known by the keys on the way to it
Above(key, node) ==
    [cls |-> "above", items |-> <<[k |-> key, v |-> node]>>, params |-> <<>>]

RECURSIVE NodeAt(_, _)
NodeAt(node, path) ==
    IF path = <<>> THEN node
    ELSE NodeAt(DictGet(node.items, path[1]), Tail(path))

RECURSIVE Descendants(_, _)
Descendants(node, path) ==
    {path} \cup UNION {Descendants(node.items[i].v, Append(path, node.items[i].k)) :
                          i \in 1..Len(node.items)}

\* The nodes that traverse is to visit: a root is not visited itself
Visited(key, node) ==
    IF node.cls \in RootClasses
    THEN Descendants(node, <<>>) \ {<<>>}
    ELSE Descendants(Above(key, node), <<>>) \ {<<>>}

TreeOf(key, node) == IF node.cls \in RootClasses THEN node ELSE Above(key, node)

IsPrefix(p, q) == Len(p) <= Len(q) /\ SubSeq(q, 1, Len(p)) = p

\* b and c are children of one node, b inserted before c
SiblingBefore(tree, b, c) ==
    /\ Len(b) = Len(c) /\ Len(b) > 0
    /\ SubSeq(b, 1, Len(b) - 1) = SubSeq(c, 1, Len(c) - 1)
    /\ DictIndex(NodeAt(tree, SubSeq(b, 1, Len(b) - 1)).items, b[Len(b)])
         < DictIndex(NodeAt(tree, SubSeq(c, 1, Len(c) - 1)).items, c[Len(c)])

\* p comes before q in the pre-order listing: p is above q, or p is in the
\* subtree of a sibling before the one of q
PreOrderBefore(tree, p, q) ==
    \/ p # q /\ IsPrefix(p, q)
    \/ \E n \in 1..Len(p) :
          n <= Len(q) /\ SiblingBefore(tree, SubSeq(p, 1, n), SubSeq(q, 1, n))

\* The node of an event, by the stack and the key given to the callback
PathOf(e) == [i \in 1..Len(e.parents) |-> e.parents[i].k] \o <<e.k>>

Entered(events) == SelectSeq(events, LAMBDA e : e.enter)

\* C12: traverse calls fn on entry for every node under the start, the start
\* itself unless it is a root, in pre-order with the children in insertion
\* order; it calls fn on exit for every object and table, after every event
\* of its subtree; every event of the subtree of b comes before the entry of
\* a later sibling c; and no event is for the root traverse was called on.
C12_TraversePreOrder ==
    pc = "traversed" =>
        LET events == found.events
            tree == TreeOf(call.key, call.node)
            nodes == Visited(call.key, call.node)
            entered == Entered(events)
        IN  /\ Len(entered) = Cardinality(nodes)
            /\ \A i \in 1..Len(entered) :
                  /\ PathOf(entered[i]) \in nodes
                  /\ entered[i].v = NodeAt(tree, PathOf(entered[i]))
                  /\ Cardinality({q \in nodes :
                                    PreOrderBefore(tree, q, PathOf(entered[i]))}) = i - 1
            /\ \A p \in nodes :
                  Cardinality({i \in 1..Len(events) :
                                  ~events[i].enter /\ PathOf(events[i]) = p})
                    = (IF IsObject(NodeAt(tree, p)) \/ IsTable(NodeAt(tree, p))
                       THEN 1 ELSE 0)
            /\ \A i, j \in 1..Len(events) :
                  (~events[j].enter /\ IsPrefix(PathOf(events[j]), PathOf(events[i])))
                      => i <= j
            /\ \A i, j \in 1..Len(events) :
                  (/\ events[j].enter
                   /\ Len(PathOf(events[i])) >= Len(PathOf(events[j]))
                   /\ SiblingBefore(tree,
                                    SubSeq(PathOf(events[i]), 1, Len(PathOf(events[j]))),
                                    PathOf(events[j])))
                      => i < j
            /\ \A i \in 1..Len(events) :
                  PathOf(events[i]) \in nodes /\ events[i].v.cls \notin RootClasses

\* A root with two sections, the first one with a child, is traversed
C12_Witness ==
    /\ pc = "traversed"
    /\ call.node.cls \in RootClasses
    /\ Len(call.node.items) >= 2
    /\ \E i, j, k \in 1..Len(found.events) :
          /\ i < j /\ j < k
          /\ found.events[i].enter /\ Len(found.events[i].parents) = 1
          /\ ~found.events[j].enter /\ Len(found.events[j].parents) = 0
          /\ found.events[k].enter /\ Len(found.events[k].parents) = 0
          /\ found.events[j].k # found.events[k].k

-----------------------------------------------------------------------------
(* walk *)

\* p comes before q in the breadth-first listing: p is less deep, or as deep
\* and, where their ways part, on the side of the earlier sibling
BreadthFirstBefore(tree, p, q) ==
    \/ Len(p) < Len(q)
    \/ /\ Len(p) = Len(q)
       /\ \E n \in 1..Len(p) : SiblingBefore(tree, SubSeq(p, 1, n), SubSeq(q, 1, n))

\* The path of a node: the keys on the way to it, the delimiter between them
RECURSIVE PathString(_, _)
PathString(p, delimiter) ==
    IF Len(p) = 1 THEN p[1]
    ELSE PathString(SubSeq(p, 1, Len(p) - 1), delimiter) \o delimiter \o p[Len(p)]

\* C13: walk yields the start first, under its key, then every node under it
\* once, the nodes of a depth before the deeper ones and siblings in
\* insertion order, each with the path of its parent, the delimiter and its
\* key; a Set or an Unset is yielded once and has nothing under it.
C13_WalkBreadthFirst ==
    pc = "walked" =>
        LET tree == Above(call.key, call.node)
            nodes == Descendants(tree, <<>>) \ {<<>>}
            yielded == found.yielded
            at(i) == CHOOSE p \in nodes :
                        Cardinality({q \in nodes : BreadthFirstBefore(tree, q, p)}) = i - 1
        IN  /\ found.err = NoError
            /\ Len(yielded) = Cardinality(nodes)
            /\ yielded[1] = [path |-> call.key, node |-> call.node]
            /\ \A i \in 1..Len(yielded) :
                  /\ yielded[i].path = PathString(at(i), call.delimiter)
                  /\ yielded[i].node = NodeAt(tree, at(i))
            /\ \A i \in 2..Len(yielded) :
                  \E j \in 1..(i - 1) :
                      /\ IsObject(yielded[j].node) \/ IsTable(yielded[j].node)
                      /\ \E n \in 1..Len(yielded[j].node.items) :
                            /\ yielded[i].node = yielded[j].node.items[n].v
                            /\ yielded[i].path = yielded[j].path \o call.delimiter
                                                  \o yielded[j].node.items[n].k

\* A walk over three depths with two nodes at the second: a node of the third
\* depth is yielded after both
C13_Witness ==
    /\ pc = "walked"
    /\ call.delimiter = <<"/">>
    /\ Len(found.yielded) >= 4
    /\ IsSet(found.yielded[Len(found.yielded)].node)
       \/ IsUnset(found.yielded[Len(found.yielded)].node)
    /\ \E i \in 2..(Len(found.yielded) - 2) :
          /\ Cardinality({n \in 1..Len(found.yielded[i].path) :
                             found.yielded[i].path[n] = "/"}) = 1
          /\ Cardinality({n \in 1..Len(found.yielded[i + 1].path) :
                             found.yielded[i + 1].path[n] = "/"}) = 1
          /\ Cardinality({n \in 1..Len(found.yielded[i + 2].path) :
                             found.yielded[i + 2].path[n] = "/"}) = 2
          /\ IsPrefix(found.yielded[i].path, found.yielded[i + 2].path)

-----------------------------------------------------------------------------
(* The empty input *)

\* C14: parsing the empty string returns a configuration whose root has no
\* children, whose comments are empty, whose multi_vdom is false and whose
\* make_config() is the empty sequence of lines.
C14_EmptyInput ==
    /\ (pc = "parsed" /\ stream = <<>>)
          => /\ result.err = NoError
             /\ Len(result.config.root.items) = 0
             /\ result.config.root.cls \in RootClasses
             /\ result.config.comments = <<>>
             /\ ~multi_vdom(result.config)
             /\ make_config(result.config, NoFilter) = <<>>
    /\ (pc = "written" /\ stream = <<>>) => config_lines = <<>>

C14_Witness ==
    /\ pc = "written"
    /\ stream = <<>>
    /\ doc = EmptyDocument
    /\ result.err = NoError
    /\ Len(result.config.root.items) = 0
    /\ config_lines = <<>>

-----------------------------------------------------------------------------
(* The set command *)

MaxTokens == 3

\* The tokens after the set keyword: words, a keyword, a quoted string with
\* a space and one with an escaped quote
SetTokens ==
    {Wp, Wv, END, Qvw, <<QUOTE, "a", BACKSLASH, QUOTE, "b", QUOTE>>}

SetLines == UNION {[1..n -> SetTokens] : n \in 0..MaxTokens}

\* The set line alone, and the set line in a block
SetLine(tokens) == Words(<<SET>> \o tokens)

SetText(tokens) ==
    join(EOL, <<Words(<<CONFIG, Wa>>), Spaces(_indent) \o SetLine(tokens), END>>)

InitSet ==
    /\ arg \in SetLines
    /\ pc = "line"
    /\ stream = <<>>
    /\ result = NoResult
    /\ call = NoCall
    /\ found = NoResult
    /\ doc = <<>>
    /\ edits = 0
    /\ root_config_factory = DefaultFactory
    /\ config_lines = <<>>
    /\ text = <<>>
    /\ how = "none"
    /\ cycle = 0
    /\ quoted = <<>>
    /\ unquoted = <<>>
    /\ table = FgtConfigTable

\* _parse_set_command(lexer), the lexer after the set keyword of the line
ParseSetCommand ==
    /\ pc = "line"
    /\ stream' = SetLine(arg)
    /\ call' = [op |-> "_parse_set_command"]
    /\ found' = _parse_set_command(stream', next_token(stream', Lexer).lex)
    /\ pc' = "set command"
    /\ UNCHANGED <<doc, edits, root_config_factory, result, config_lines, text,
                   how, cycle, arg, quoted, unquoted, table>>

\* parse_string of a block with the set line
ParseSetText ==
    /\ pc = "line"
    /\ stream' = SetText(arg)
    /\ result' = parse(stream', root_config_factory)
    /\ pc' = "set parsed"
    /\ UNCHANGED <<doc, edits, root_config_factory, config_lines, text, how,
                   cycle, arg, quoted, unquoted, table, call, found>>

NextSet == ParseSetCommand \/ ParseSetText

SpecSet == InitSet /\ [][NextSet]_vars

\* The Set nodes of a tree
RECURSIVE SetNodes(_)
SetNodes(node) ==
    (IF IsSet(node) THEN {node} ELSE {})
    \cup UNION {SetNodes(node.items[i].v) : i \in 1..Len(node.items)}

\* C15: a set line with fewer than two tokens raises FgtConfigSyntaxError;
\* otherwise the key is the first token and the parameters of the Set are the
\* other tokens of the line, in order and as written; so every Set of a tree
\* that parse returns has a parameter.
C15_SetCommand ==
    /\ pc = "set command" =>
          IF Len(arg) < 2
          THEN found.err = "FgtConfigSyntaxError" /\ found.msg = "invalid set command"
          ELSE /\ found.err = NoError
               /\ found.key = arg[1]
               /\ found.node = FgtConfigSet(Tail(arg))
    /\ pc = "set parsed" =>
          IF Len(arg) < 2
          THEN result.err = "FgtConfigSyntaxError" /\ result.msg = "invalid set command"
          ELSE /\ result.err = NoError
               /\ DictGet(result.config.root.items, Wa).items
                    = <<[k |-> arg[1], v |-> FgtConfigSet(Tail(arg))]>>
               /\ \A n \in SetNodes(result.config.root) : Len(n.params) >= 1

C15_Witness ==
    /\ pc = "set parsed"
    /\ Len(arg) = 3
    /\ arg[2] = Qvw
    /\ arg[3] = <<QUOTE, "a", BACKSLASH, QUOTE, "b", QUOTE>>
    /\ result.err = NoError
    /\ DictGet(DictGet(result.config.root.items, Wa).items, arg[1]).params
         = <<arg[2], arg[3]>>

-----------------------------------------------------------------------------
(* Comments *)

\* The comment lines of a document before its first statement
RECURSIVE LeadingComments(_)
LeadingComments(d) ==
    IF d = <<>> THEN <<>>
    ELSE IF d[1].kind = "comment" THEN <<d[1].text>> \o LeadingComments(Tail(d))
    ELSE IF d[1].kind = "blank" THEN LeadingComments(Tail(d))
    ELSE <<>>

\* The first line that the grammar does not allow is a comment after the
\* first statement, on a line of its own or in the line of a statement, and
\* parse has not stopped on an error of another class before it read
\* anything of that line
LateComment(d) ==
    /\ Outline(d).fault \in {"comment", "inline"}
    /\ ~(/\ result.err \in OtherErrors
         /\ \/ result.lex.row < Outline(d).at
            \/ result.lex.row = Outline(d).at /\ result.lex.col = 1)

\* C16: the comments of the configuration are the lines that start with #
\* before the first statement, in their order and as written, the empty lines
\* between them left out and nothing of what follows the first statement
\* added; a comment after the first statement, on its own line or in the line
\* of a statement, makes parse raise a syntax error.
C16_LeadingComments ==
    (pc = "parsed" /\ cycle = 0)
        => /\ result.err = NoError => result.config.comments = LeadingComments(doc)
           /\ LateComment(doc) => result.err \in SyntaxErrors

-----------------------------------------------------------------------------
(* The roots *)

\* C17: in every configuration that parse returns, every value held directly
\* under a root (the global or flat root and the root of each tenant) is an
\* object or a table, never a set or an unset.
C17_RootInvariant ==
    (pc = "parsed" /\ result.err = NoError)
        => \A r \in Roots(result.config) :
              \A i \in 1..Len(r.items) : IsObject(r.items[i].v) \/ IsTable(r.items[i].v)

-----------------------------------------------------------------------------
(* The typed accessors of an object *)

\* The document of an object o with a set of one value, a set of two values,
\* an unset, an object and a table
ObjectText ==
    join(EOL, << Words(<<CONFIG, <<"o">> >>),
                 Words(<<SET, Wa, W1>>),
                 Words(<<SET, Wb, W1, Qvw>>),
                 Words(<<UNSET, <<"u">> >>),
                 Words(<<CONFIG, Wc>>),
                 END,
                 Words(<<CONFIG, <<"t">> >>),
                 Words(<<EDIT, W1>>),
                 NEXT,
                 END,
                 END >>)

\* The keys of the calls: the keys of o and a key that o does not hold
ObjectKeys == {Wa, Wb, <<"u">>, Wc, <<"t">>, Wz}

\* The defaults of the calls: None when the caller gives none, or a node
NodeDefaults ==
    {NoneNode, FgtConfigSet(<<Wx>>), FgtConfigUnset, FgtConfigObject, FgtConfigTable}

\* The defaults of param: None when the caller gives none, or a string
ParamDefaults == {NoToken, <<>>, Wx, Qvw}

InitObject ==
    /\ stream = ObjectText
    /\ result = parse(stream, DefaultFactory)
    /\ table = DictGet(result.config.root.items, <<"o">>)
    /\ pc = "object"
    /\ call = NoCall
    /\ found = NoResult
    /\ doc = <<>>
    /\ edits = 0
    /\ root_config_factory = DefaultFactory
    /\ config_lines = <<>>
    /\ text = <<>>
    /\ how = "none"
    /\ cycle = 0
    /\ arg = <<>>
    /\ quoted = <<>>
    /\ unquoted = <<>>

\* o.c_object(key, default)
CObject(key, default) ==
    /\ pc = "object"
    /\ call' = [op |-> "c_object", key |-> key, default |-> default]
    /\ found' = c_object(table, key, default)
    /\ pc' = "accessed"
    /\ UNCHANGED <<doc, edits, stream, root_config_factory, result, config_lines,
                   text, how, cycle, arg, quoted, unquoted, table>>

\* o.c_table(key, default)
CTable(key, default) ==
    /\ pc = "object"
    /\ call' = [op |-> "c_table", key |-> key, default |-> default]
    /\ found' = c_table(table, key, default)
    /\ pc' = "accessed"
    /\ UNCHANGED <<doc, edits, stream, root_config_factory, result, config_lines,
                   text, how, cycle, arg, quoted, unquoted, table>>

\* o.c_set(key, default)
CSet(key, default) ==
    /\ pc = "object"
    /\ call' = [op |-> "c_set", key |-> key, default |-> default]
    /\ found' = c_set(table, key, default)
    /\ pc' = "accessed"
    /\ UNCHANGED <<doc, edits, stream, root_config_factory, result, config_lines,
                   text, how, cycle, arg, quoted, unquoted, table>>

\* o.param(key, default)
Param(key, default) ==
    /\ pc = "object"
    /\ call' = [op |-> "param", key |-> key, default |-> default]
    /\ found' = param(table, key, default)
    /\ pc' = "accessed"
    /\ UNCHANGED <<doc, edits, stream, root_config_factory, result, config_lines,
                   text, how, cycle, arg, quoted, unquoted, table>>

NextObject ==
    \/ \E key \in ObjectKeys, default \in NodeDefaults : CObject(key, default)
    \/ \E key \in ObjectKeys, default \in NodeDefaults : CTable(key, default)
    \/ \E key \in ObjectKeys, default \in NodeDefaults : CSet(key, default)
    \/ \E key \in ObjectKeys, default \in ParamDefaults : Param(key, default)

SpecObject == InitObject /\ [][NextObject]_vars

\* The class that an accessor asks for
Asked(op, node) ==
    CASE op = "c_object" -> IsObject(node)
      [] op = "c_table" -> IsTable(node)
      [] op = "c_set" -> IsSet(node)

Accessors == {"c_object", "c_table", "c_set"}

\* C18: when the key exists, c_object, c_table and c_set raise TypeError for
\* a node of another variant than the one asked for, with or without a
\* default, and return the stored node itself for a node of that variant.
C18_TypedAccessors ==
    (pc = "accessed" /\ call.op \in Accessors /\ DictHas(table.items, call.key))
        => IF Asked(call.op, DictGet(table.items, call.key))
           THEN /\ found.err = NoError
                /\ found.ref = DictIndex(table.items, call.key)
                /\ found.value = DictGet(table.items, call.key)
           ELSE found.err = "TypeError"

C18_Witness ==
    /\ pc = "accessed"
    /\ call.op = "c_table"
    /\ call.default = FgtConfigTable
    /\ DictHas(table.items, call.key)
    /\ IsSet(DictGet(table.items, call.key))
    /\ found.err = "TypeError"

\* ... and an accessor returns the stored node when a default is given
C18_WitnessStored ==
    /\ pc = "accessed"
    /\ call.op = "c_set"
    /\ call.default = FgtConfigSet(<<Wx>>)
    /\ found.err = NoError
    /\ found.ref # 0
    /\ found.value.params = <<W1, Qvw>>

\* C19: when the key is absent, c_object, c_table and c_set return the
\* default as it was given if one was given, and raise KeyError if none was.
C19_AbsentKey ==
    (pc = "accessed" /\ call.op \in Accessors /\ ~DictHas(table.items, call.key))
        => IF call.default = NoneNode
           THEN found.err = "KeyError"
           ELSE found.err = NoError /\ found.ref = 0 /\ found.value = call.default

\* C20: param returns the token of a set of one token, raises ValueError for
\* a set of more tokens and TypeError for a node that is not a set, returns
\* the default when the key is absent, and leaves the tree as it was.
C20_Param ==
    (pc = "accessed" /\ call.op = "param")
        => /\ table = DictGet(parse(stream, DefaultFactory).config.root.items, <<"o">>)
           /\ IF ~DictHas(table.items, call.key)
              THEN found.err = NoError /\ found.value = call.default
              ELSE IF ~IsSet(DictGet(table.items, call.key))
              THEN found.err = "TypeError"
              ELSE IF Len(DictGet(table.items, call.key).params) > 1
              THEN found.err = "ValueError"
              ELSE /\ found.err = NoError
                   /\ found.value = DictGet(table.items, call.key).params[1]

-----------------------------------------------------------------------------
(* Absent keys of a table *)

\* No entry of the table has the key of the call, whether the key is read as
\* the token of the edit or as the name that the token quotes
AbsentItem(node, item) ==
    LET with_name(name) ==
        \A i \in 1..Len(node.items) :
            /\ node.items[i].k # name
            /\ node.items[i].k # qus(name)
            /\ uqs(node.items[i].k) # name
    IN  with_name(IF item.type = "int" THEN str(item.value) ELSE item.value)

\* C21: table[key] with an integer or a string key raises KeyError when the
\* table has no entry with that key, and c_entry(key, default) then returns
\* the default.
C21_AbsentEntry ==
    (pc = "looked" /\ call.op \in {"c_entry", "__getitem__"}
                   /\ AbsentItem(table, call.item))
        => IF call.op = "__getitem__"
           THEN found.err = "KeyError"
           ELSE found.err = NoError /\ found.ref = 0 /\ found.value = call.default

-----------------------------------------------------------------------------
(* The root factory *)

\* A document whose block is not closed
OpenDocument ==
    << Line("config", Wa, 0, <<CONFIG, Wa>>),
       Line("set", Wp, 4, <<SET, Wp, Wv>>) >>

FactoryDocuments == Documents \cup {OpenDocument}

InitFactory ==
    /\ doc = EmptyDocument
    /\ edits = 0
    /\ stream = <<>>
    /\ root_config_factory = DefaultFactory
    /\ pc = "calls"
    /\ result = NoResult
    /\ config_lines = <<>>
    /\ text = <<>>
    /\ how = "none"
    /\ cycle = 0
    /\ arg = <<>>
    /\ quoted = <<>>
    /\ unquoted = <<>>
    /\ table = FgtConfigTable
    /\ call = NoCall
    /\ found = NoResult

\* set_root_config_factory(factory)
set_root_config_factory(factory) ==
    /\ root_config_factory' = factory
    /\ call' = [op |-> "set_root_config_factory", factory |-> factory]
    /\ pc' = "registered"
    /\ UNCHANGED <<doc, edits, stream, result, config_lines, text, how, cycle,
                   arg, quoted, unquoted, table, found>>

\* get_root_config_factory()
get_root_config_factory ==
    /\ call' = [op |-> "get_root_config_factory"]
    /\ found' = [err |-> NoError, msg |-> "", factory |-> root_config_factory]
    /\ pc' = "got"
    /\ UNCHANGED <<doc, edits, stream, root_config_factory, result, config_lines,
                   text, how, cycle, arg, quoted, unquoted, table>>

\* parse_string(config_value) on a document, one call after another
ParseDocument(d) ==
    /\ cycle < MaxCycles
    /\ doc' = d
    /\ stream' = TextOf(d)
    /\ result' = parse(stream', root_config_factory)
    /\ call' = [op |-> "parse_string"]
    /\ cycle' = cycle + 1
    /\ pc' = "parsed"
    /\ UNCHANGED <<edits, root_config_factory, config_lines, text, how, arg,
                   quoted, unquoted, table, found>>

NextFactory ==
    \/ \E factory \in Factories : set_root_config_factory(factory)
    \/ get_root_config_factory
    \/ \E d \in FactoryDocuments : ParseDocument(d)

SpecFactory == InitFactory /\ [][NextFactory]_vars

\* What a call returns or builds is of the registered factory
FactoryUsed ==
    /\ pc = "registered" => root_config_factory = call.factory
    /\ pc = "got" => found.factory = root_config_factory
    /\ (pc = "parsed" /\ result.err = NoError)
          => /\ \A r \in Roots(result.config) : r.cls = root_config_factory
             /\ result.config.root.items =
                   (IF multi_vdom(result.config)
                    THEN DictGet(result.global_config, GLOBAL).items
                    ELSE result.global_config)

\* Only a registration changes the registered factory
FactoryKept ==
    root_config_factory' # root_config_factory
        => call'.op = "set_root_config_factory" /\ root_config_factory' = call'.factory

\* C22: after set_root_config_factory(f), get_root_config_factory() returns
\* f and every parse builds the root and every tenant root with f, from the
\* parsed object, until another factory is registered; no parse, returning or
\* raising, changes the registration, and all roots of one parse are of the
\* factory registered when it started.
C22_RootFactoryIsProcessWide == []FactoryUsed /\ [][FactoryKept]_vars

\* A second parse builds its roots, the tenants' too, with the registered
\* factory, which is not the one the class starts with
C22_Witness ==
    /\ pc = "parsed"
    /\ cycle = 2
    /\ root_config_factory = "RootConfig"
    /\ result.err = NoError
    /\ Len(result.config.vdoms) > 0
    /\ \A r \in Roots(result.config) : r.cls = "RootConfig"

-----------------------------------------------------------------------------
(* The entries of a table *)

\* The first line that the grammar does not allow stands between the entries
\* of a table, where only edit and end may stand, and parse has not stopped on
\* an error of another class before it read anything of that line
BetweenEntries(d) ==
    LET with_o(o) ==
        /\ o.fault # "none"
        /\ Len(o.stack) > 0
        /\ o.stack[Len(o.stack)].kind = "table"
        /\ ~(/\ result.err \in OtherErrors
             /\ \/ result.lex.row < o.at
                \/ result.lex.row = o.at /\ result.lex.col = 1)
    IN  with_o(Outline(d))

\* C23: in a table, after an entry has been closed by next, a token other
\* than edit and end raises a syntax error and is not taken for the start of
\* an entry.
C23_TableHoldsOnlyEdits ==
    (pc = "parsed" /\ cycle = 0 /\ BetweenEntries(doc))
        => result.err \in SyntaxErrors

-----------------------------------------------------------------------------
(* The calls of the visitor *)

\* The calls of fn, on entry or on exit, for the node at a path
Calls(events, path, enter) ==
    Cardinality({i \in 1..Len(events) :
                    events[i].enter = enter /\ PathOf(events[i]) = path})

\* The nodes of the tree that traverse was started on, the start included
Walked(key, node) ==
    IF node.cls \in RootClasses THEN Descendants(node, <<>>) ELSE Visited(key, node)

\* Every object and table among the nodes has one call on entry and one on
\* exit, every set and unset one call on entry and none on exit
CalledOnce(events, tree, nodes) ==
    /\ \A i \in 1..Len(events) :
          /\ PathOf(events[i]) \in nodes
          /\ events[i].v = NodeAt(tree, PathOf(events[i]))
    /\ \A path \in nodes :
          /\ Calls(events, path, TRUE) = 1
          /\ Calls(events, path, FALSE) =
                (IF IsObject(NodeAt(tree, path)) \/ IsTable(NodeAt(tree, path))
                 THEN 1 ELSE 0)

\* C24 as stated: every object and table of the walked tree, the node that
\* traverse was started on included, has one call on entry and one on exit,
\* and every set and unset one call on entry and none on exit.
C24_VisitorCallCounts ==
    pc = "traversed"
        => CalledOnce(found.events, TreeOf(call.key, call.node),
                      Walked(call.key, call.node))

\* C24: every object and table of the walked tree, the node that traverse was
\* started on included unless it is a root, has one call of fn on entry and
\* one on exit, and every set and unset one call on entry and none on exit; a
\* root that traverse is started on has no call.
C24_VisitorCallCountsBelowRoot ==
    pc = "traversed"
        => /\ CalledOnce(found.events, TreeOf(call.key, call.node),
                         Visited(call.key, call.node))
           /\ call.node.cls \in RootClasses
                => \A i \in 1..Len(found.events) : found.events[i].v # call.node

C24_Witness ==
    /\ pc = "traversed"
    /\ IsTable(call.node)
    /\ Calls(found.events, <<call.key>>, TRUE) = 1
    /\ Calls(found.events, <<call.key>>, FALSE) = 1
    /\ \E path \in Visited(call.key, call.node) :
          /\ Len(path) = 3
          /\ IsSet(NodeAt(TreeOf(call.key, call.node), path))
          /\ Calls(found.events, path, TRUE) = 1
          /\ Calls(found.events, path, FALSE) = 0

-----------------------------------------------------------------------------
(* The stack of the parents *)

IsBody(node) == IsObject(node) \/ IsTable(node)

\* The stack that the i-th call is to see: every object and table entered by
\* an earlier call and not yet left, the outermost first, the one that the
\* call is for left out
RECURSIVE StackAt(_, _)
StackAt(events, i) ==
    IF i = 1 THEN <<>>
    ELSE LET with_base(base) ==
                 IF events[i].enter \/ base = <<>> THEN base
                 ELSE SubSeq(base, 1, Len(base) - 1)
         IN  with_base(IF events[i - 1].enter /\ IsBody(events[i - 1].v)
                       THEN Append(StackAt(events, i - 1),
                                   [k |-> events[i - 1].k, v |-> events[i - 1].v])
                       ELSE StackAt(events, i - 1))

\* The calls between the i-th and the j-th enter as many objects and tables
\* as they leave
Balanced(events, i, j) ==
    Cardinality({n \in (i + 1)..(j - 1) : events[n].enter /\ IsBody(events[n].v)})
        = Cardinality({n \in (i + 1)..(j - 1) : ~events[n].enter})

\* The call on exit for the node that the i-th call enters
ExitOf(events, i) ==
    CHOOSE j \in (i + 1)..Len(events) :
        /\ ~events[j].enter /\ Balanced(events, i, j)
        /\ \A n \in (i + 1)..(j - 1) : events[n].enter \/ ~Balanced(events, i, n)

\* C25: in a traverse started with an empty stack, the stack at every call
\* of fn holds the (key, node) pairs of the proper ancestors of the node that
\* were entered, the outermost first; the call on entry and the call on exit
\* of a node see the same stack; and the stack is empty when traverse
\* returns.
C25_AncestorStack ==
    pc = "traversed" =>
        LET events == found.events
            tree == TreeOf(call.key, call.node)
        IN  /\ \A i \in 1..Len(events) :
                  /\ events[i].parents = StackAt(events, i)
                  /\ \A n \in 1..Len(events[i].parents) :
                        /\ IsBody(events[i].parents[n].v)
                        /\ events[i].parents[n].v =
                              NodeAt(tree, [m \in 1..n |-> events[i].parents[m].k])
                  /\ events[i].v = NodeAt(tree, PathOf(events[i]))
                  /\ (events[i].enter /\ IsBody(events[i].v))
                        => /\ \E j \in (i + 1)..Len(events) :
                                 ~events[j].enter /\ Balanced(events, i, j)
                           /\ events[ExitOf(events, i)].k = events[i].k
                           /\ events[ExitOf(events, i)].v = events[i].v
                           /\ events[ExitOf(events, i)].parents = events[i].parents
            /\ found.parents = <<>>

C25_Witness ==
    /\ pc = "traversed"
    /\ found.parents = <<>>
    /\ \E i \in 1..Len(found.events) :
          /\ found.events[i].enter
          /\ IsBody(found.events[i].v)
          /\ Len(found.events[i].parents) = 1
          /\ found.events[ExitOf(found.events, i)].parents = found.events[i].parents
          /\ ExitOf(found.events, i) > i + 1
          /\ Len(found.events[i + 1].parents) = 2
          /\ found.events[i + 1].parents[1].k # found.events[i + 1].parents[2].k

-----------------------------------------------------------------------------
(* The lines of the serializer *)

\* The line that the claim gives to one call of the traversal
LineForm(ev) ==
    Spaces(4 * Len(ev.parents)) \o
    (CASE IsSet(ev.v) -> SET \o <<SPACE>> \o ev.k \o <<SPACE>> \o join(SPACE, ev.v.params)
       [] IsUnset(ev.v) -> UNSET \o <<SPACE>> \o ev.k
       [] IsBody(ev.v) /\ (ev.parents = <<>> \/ IsObject(ev.parents[Len(ev.parents)].v)) ->
             (IF ev.enter THEN CONFIG \o <<SPACE>> \o ev.k ELSE END)
       [] IsBody(ev.v) /\ ev.parents # <<>> /\ IsTable(ev.parents[Len(ev.parents)].v) ->
             (IF ev.enter THEN EDIT \o <<SPACE>> \o ev.k ELSE NEXT))

\* The spaces at the start of a line
Indentation(line) == Len(line) - Len(lstrip(line))

\* The lines of config_lines from the one after offset (all of them, when
\* last) are the lines of the traversal of a root, one for each call, and the
\* line that closes a block is indented as the line that opens it
SectionAt(root, offset, last) ==
    LET with_events(events) ==
        /\ offset + Len(events) <= Len(config_lines)
        /\ last => offset + Len(events) = Len(config_lines)
        /\ \A i \in 1..Len(events) :
              /\ config_lines[offset + i] = LineForm(events[i])
              /\ (events[i].enter /\ IsBody(events[i].v))
                    => Indentation(config_lines[offset + ExitOf(events, i)])
                         = Indentation(config_lines[offset + i])
    IN  with_events(traverse(<<>>, root, Traversal(<<>>)).events)

\* C26: make_config gives a set the line `set <key> <values joined by one
\* space>`, an unset `unset <key>`, an object or table `config <key>` and
\* `end` when the stack is empty or its innermost ancestor is an object,
\* `edit <key>` and `next` when its innermost ancestor is a table, each line
\* after four spaces per ancestor on the stack, so that the two lines of a
\* block are indented alike.
C26_SerializerLineForms ==
    pc = "written" =>
        IF multi_vdom(result.config)
        THEN /\ SectionAt(result.config.root, 5 + 2 * Len(result.config.vdoms), FALSE)
             /\ \A n \in 1..Len(result.config.vdoms) :
                   \E offset \in 1..Len(config_lines) :
                      /\ config_lines[offset] = EDIT \o <<SPACE>> \o result.config.vdoms[n].k
                      /\ offset > 5 + 2 * Len(result.config.vdoms)
                      /\ SectionAt(result.config.vdoms[n].v, offset, FALSE)
        ELSE SectionAt(result.config.root, 0, TRUE)

C26_Witness ==
    /\ pc = "written"
    /\ \E i, j \in 1..Len(config_lines) :
          /\ i < j
          /\ startswith(config_lines[i], Spaces(4) \o EDIT)
          /\ startswith(config_lines[j], Spaces(8) \o SET)
    /\ \E i \in 1..Len(config_lines) : config_lines[i] = Spaces(4) \o NEXT
    /\ startswith(config_lines[1], CONFIG)
    /\ config_lines[Len(config_lines)] = END

-----------------------------------------------------------------------------
(* The filter of the serializer *)

\* config.make_config(item_filter)
MakeConfig(item_filter) ==
    /\ pc = "parsed"
    /\ result.err = NoError
    /\ call' = [op |-> "make_config", item_filter |-> item_filter]
    /\ config_lines' = make_config(result.config, item_filter)
    /\ pc' = "filtered"
    /\ UNCHANGED <<doc, edits, stream, root_config_factory, result, text, how,
                   cycle, arg, quoted, unquoted, table, found>>

NextFilter ==
    \/ \E i \in 1..(Len(doc) + 1), l \in Vocabulary : InsertLine(i, l)
    \/ \E i \in 1..Len(doc) : DeleteLine(i)
    \/ \E i \in 1..Len(doc), l \in Vocabulary : ReplaceLine(i, l)
    \/ parse_string
    \/ \E item_filter \in Filters \cup {NoFilter} : MakeConfig(item_filter)

SpecFilter == Init /\ [][NextFilter]_vars

\* The lines of the traversal of a root for which the filter returns true
KeptLines(root, item_filter) ==
    LET with_events(events) == [i \in 1..Len(events) |-> LineForm(events[i])]
    IN  with_events(SelectSeq(traverse(<<>>, root, Traversal(<<>>)).events,
                              LAMBDA ev : item_filter = NoFilter
                                          \/ CallFilter(item_filter, ev)))

\* The kept lines of the tenants from the i-th on, each after the two lines
\* that open its section and before the two that close it
RECURSIVE KeptSections(_, _, _)
KeptSections(vdoms, i, item_filter) ==
    IF i > Len(vdoms) THEN <<>>
    ELSE <<CONFIG \o <<SPACE>> \o VDOM, EDIT \o <<SPACE>> \o vdoms[i].k>>
         \o KeptLines(vdoms[i].v, item_filter) \o <<END, <<>> >>
         \o KeptSections(vdoms, i + 1, item_filter)

\* The lines that make_config writes itself for a configuration of tenants,
\* around the kept lines of the global root
KeptConfig(config, item_filter) ==
    IF Len(config.vdoms) = 0 THEN KeptLines(config.root, item_filter)
    ELSE << <<>>, CONFIG \o <<SPACE>> \o VDOM >>
         \o vdom_names(config.vdoms, 1, <<>>)
         \o <<END, <<>>, CONFIG \o <<SPACE>> \o GLOBAL>>
         \o KeptLines(config.root, item_filter)
         \o <<END, <<>> >>
         \o KeptSections(config.vdoms, 1, item_filter)

FilterKeepsLines ==
    pc = "filtered" => config_lines = KeptConfig(result.config, call.item_filter)

FilterKeepsTree == pc' = "filtered" => result' = result

-----------------------------------------------------------------------------
(* The order of the keys *)

\* The mapping that a block's statements mean: one slot for each key, at the
\* place of the key's first statement, holding the node of its last one
Slots(stmts) ==
    LET first == SelectSeq([i \in 1..Len(stmts) |-> i],
                           LAMBDA i : \A j \in 1..(i - 1) : stmts[j].k # stmts[i].k)
        last(key) == CHOOSE i \in 1..Len(stmts) :
                        /\ stmts[i].k = key
                        /\ \A j \in (i + 1)..Len(stmts) : stmts[j].k # key
    IN  [n \in 1..Len(first) |->
            [k |-> stmts[first[n]].k, v |-> stmts[last(stmts[first[n]].k)].v]]

\* The node of a set or unset line read on its own
StatementNode(l) ==
    parse(TextOf(<<Line("config", Wa, 0, <<CONFIG, Wa>>), l,
                   Line("end", <<>>, 0, <<END>>)>>),
          DefaultFactory).config.root.items[1].v.items[1].v

\* The statements of the blocks of a document that are still open, the
\* top level first
Block(kind, key) == [kind |-> kind, key |-> key, stmts |-> <<>>]

Close(stack) ==
    LET depth == Len(stack)
        top == stack[depth]
        node == [(IF top.kind = "table" THEN FgtConfigTable ELSE FgtConfigObject)
                    EXCEPT !.items = Slots(top.stmts)]
    IN  [SubSeq(stack, 1, depth - 1) EXCEPT ![depth - 1].stmts =
            Append(@, [k |-> top.key, v |-> node])]

MeantStep(stack, l) ==
    LET depth == Len(stack) IN
    CASE l.kind = "config" -> Append(stack, Block("object", l.key))
      [] l.kind = "edit" ->
            Append([stack EXCEPT ![depth].kind = "table"], Block("entry", l.key))
      [] l.kind = "next" -> Close(stack)
      [] l.kind = "end" ->
            IF stack[depth].kind = "entry" THEN Close(Close(stack)) ELSE Close(stack)
      [] l.kind \in {"set", "unset"} ->
            [stack EXCEPT ![depth].stmts =
                Append(@, [k |-> l.key, v |-> StatementNode(l)])]
      [] OTHER -> stack

RECURSIVE MeantFrom(_, _, _)
MeantFrom(d, n, stack) ==
    IF n > Len(d) THEN stack
    ELSE MeantFrom(d, n + 1, MeantStep(stack, d[n]))

\* The top-level statements of a document that the grammar allows
Meant(d) == MeantFrom(d, 1, <<Block("top", <<>>)>>)[1].stmts

RECURSIVE TenantStatements(_, _)
TenantStatements(tops, i) ==
    IF i > Len(tops) THEN <<>>
    ELSE (IF tops[i].k = VDOM THEN tops[i].v.items ELSE <<>>)
         \o TenantStatements(tops, i + 1)

MeantTenants(d) == Slots(TenantStatements(Meant(d), 1))

MeantRoot(d) ==
    LET with_tops(stmts, tops) ==
        IF \A i \in 1..Len(stmts) : stmts[i].k # VDOM \/ Len(stmts[i].v.items) = 0
        THEN tops
        ELSE DictGet(tops, GLOBAL).items
        with_stmts(stmts) ==
            with_tops(stmts, Slots(SelectSeq(stmts, LAMBDA st : st.k # VDOM)))
    IN  with_stmts(Meant(d))

\* The result is the parse of a document that the grammar allows
ParsedAsMeant ==
    LET allowed(o) == o.fault = "none" /\ o.stack = <<>> IN
    /\ pc \in {"parsed", "written", "filtered"}
    /\ result.err = NoError
    /\ stream = TextOf(doc)
    /\ allowed(Outline(doc))

\* The lines from the i-th on that open a child of a block with depth
\* ancestors, up to the line that closes the block
RECURSIVE Openings(_, _, _)
Openings(lines, i, depth) ==
    IF i > Len(lines) \/ lines[i] = <<>> \/ Indentation(lines[i]) < 4 * depth
    THEN <<>>
    ELSE (IF Indentation(lines[i]) = 4 * depth /\ lstrip(lines[i]) \notin {END, NEXT}
          THEN <<i>> ELSE <<>>)
         \o Openings(lines, i + 1, depth)

\* The lines from the i-th on open the children of a block in the order of
\* its keys, and so do the lines of each child that is a block
RECURSIVE InKeyOrder(_, _, _, _)
InKeyOrder(node, lines, i, parents) ==
    LET with_at(at) ==
        /\ Len(at) = Len(node.items)
        /\ \A n \in 1..Len(at) :
              /\ lines[at[n]] = LineForm([k |-> node.items[n].k, v |-> node.items[n].v,
                                          enter |-> TRUE, parents |-> parents])
              /\ IsBody(node.items[n].v)
                    => InKeyOrder(node.items[n].v, lines, at[n] + 1,
                                  Append(parents, node.items[n]))
    IN  with_at(Openings(lines, i, Len(parents)))

SerializedInKeyOrder ==
    IF multi_vdom(result.config)
    THEN /\ InKeyOrder(result.config.root, config_lines,
                       6 + 2 * Len(result.config.vdoms), <<>>)
         /\ \A n \in 1..Len(result.config.vdoms) :
               \E offset \in (5 + 2 * Len(result.config.vdoms))..Len(config_lines) :
                  /\ config_lines[offset] = EDIT \o <<SPACE>> \o result.config.vdoms[n].k
                  /\ InKeyOrder(result.config.vdoms[n].v, config_lines, offset + 1, <<>>)
    ELSE InKeyOrder(result.config.root, config_lines, 1, <<>>)

\* C28: in every mapping that parse builds (object, table, root) the keys are
\* unique and in the order of the statements of the source; a key that occurs
\* more than once in a block has one slot, which holds the node of its last
\* occurrence; and the serialization emits the children in that order.
C28_OrderedUniqueKeys ==
    /\ ParsedAsMeant =>
          LET as_meant(root, tenants) ==
              /\ result.config.root.items = root
              /\ DictKeys(result.config.vdoms) = DictKeys(tenants)
              /\ \A n \in 1..Len(tenants) :
                    result.config.vdoms[n].v.items = tenants[n].v.items
          IN  as_meant(MeantRoot(doc), MeantTenants(doc))
    /\ (pc = "written" \/ (pc = "filtered" /\ call.item_filter = NoFilter))
          => SerializedInKeyOrder

\* A block sets p, opens a block and sets p again: p keeps the first place
\* and has the last value
C28_Witness ==
    /\ ParsedAsMeant
    /\ pc = "filtered"
    /\ call.item_filter = NoFilter
    /\ Len(doc) = 8
    /\ doc[3].kind = "set" /\ doc[3].key = Wp
    /\ doc[4].kind = "config"
    /\ doc[7].kind = "set" /\ doc[7].key = Wp
    /\ DictKeys(result.config.root.items[1].v.items) = <<Wp, Words(<<Wb, Wc>>)>>
    /\ result.config.root.items[1].v.items[1].v.params = <<Ww>>
    /\ Len(config_lines) = 6

-----------------------------------------------------------------------------
(* A run of parse, step by step: pc is the place of the parser in its code,
   found is its local state *)

\* The truncated streams: a document, with or without empty lines after it,
\* cut after any number of characters
RunDocuments ==
    FactoryDocuments \cup {d \o <<Blank, Blank, Blank>> : d \in FactoryDocuments}

Streams ==
    UNION {{SubSeq(TextOf(d), 1, n) : n \in 0..Len(TextOf(d))} : d \in RunDocuments}

\* A block that _parse_config or _parse_table_entry is reading: the keys of
\* its line, its vdom flag and the config it fills
Block_(kind, keys, vdom, config) ==
    [kind |-> kind, keys |-> keys, vdom |-> vdom, config |-> config]

NoReturn == [key |-> <<>>, node |-> NoneNode]

\* parse, up to the first call of the lexer
NewRun(factory_fn) ==
    [factory_fn |-> factory_fn, lex |-> Lexer, token |-> NoToken, stack |-> <<>>,
     comments |-> <<>>, global_config |-> <<>>, vdoms_config |-> <<>>,
     ret |-> NoReturn]

InitRun ==
    /\ doc = EmptyDocument
    /\ edits = 0
    /\ stream \in Streams
    /\ root_config_factory = DefaultFactory
    /\ pc = "comments"
    /\ result = NoResult
    /\ config_lines = <<>>
    /\ text = <<>>
    /\ how = "none"
    /\ cycle = 0
    /\ arg = <<>>
    /\ quoted = <<>>
    /\ unquoted = <<>>
    /\ table = FgtConfigTable
    /\ call = NoCall
    /\ found = NewRun(root_config_factory)

RunFrame == <<doc, edits, stream, root_config_factory, config_lines, text, how,
              cycle, arg, quoted, unquoted, table, call>>

Go(place, run) ==
    /\ pc' = place
    /\ found' = run
    /\ UNCHANGED result

Raised(err, msg, L) ==
    /\ pc' = "raised"
    /\ found' = [found EXCEPT !.lex = L]
    /\ result' = [err |-> err, msg |-> msg, lex |-> L]

Innermost == found.stack[Len(found.stack)]

Outer == SubSeq(found.stack, 1, Len(found.stack) - 1)

\* parse: one turn of the loop over the comments and the empty lines
ReadComment ==
    /\ pc = "comments"
    /\ \E r \in {next_snl_token(stream, found.lex, FALSE)} :
          IF r.err # NoError THEN Raised(r.err, r.msg, r.lex)
          ELSE IF startswith(r.token, <<HASH>>)
          THEN Go("comments", [found EXCEPT !.lex = r.lex,
                                            !.comments = Append(@, r.token)])
          ELSE Go("statement", [found EXCEPT !.lex = r.lex, !.token = r.token])
    /\ UNCHANGED RunFrame

\* parse: the loop over the config statements has a token that is not the end
\* of the stream
Statement ==
    /\ pc = "statement"
    /\ ~is_eos(found.token)
    /\ IF found.token = CONFIG THEN Go("config", found)
       ELSE Raised("FgtConfigSyntaxError", "invalid entry", found.lex)
    /\ UNCHANGED RunFrame

\* parse: the loop has the end of the stream, and parse returns or raises
Return ==
    /\ pc = "statement"
    /\ is_eos(found.token)
    /\ IF Len(found.vdoms_config) # 0 /\ ~DictHas(found.global_config, GLOBAL)
       THEN Raised("KeyError", "global", found.lex)
       ELSE \E f \in {CallFactory(found.factory_fn, found.comments,
                          IF Len(found.vdoms_config) = 0
                          THEN [FgtConfigObject EXCEPT !.items = found.global_config]
                          ELSE DictGet(found.global_config, GLOBAL))} :
               IF f.err # NoError THEN Raised(f.err, f.msg, found.lex)
               ELSE \E cfg \in {FgtConfig(found.comments, f.root, found.vdoms_config)} :
                       IF cfg.err # NoError THEN Raised(cfg.err, cfg.msg, found.lex)
                       ELSE /\ pc' = "returned"
                            /\ found' = found
                            /\ result' = [err |-> NoError, msg |-> "",
                                          lex |-> found.lex, config |-> cfg.config,
                                          global_config |-> found.global_config]
    /\ UNCHANGED RunFrame

\* _parse_config, up to its loop
OpenConfig ==
    /\ pc = "config"
    /\ \E p \in {next_parameters(stream, found.lex)} :
          IF p.err # NoError THEN Raised(p.err, p.msg, p.lex)
          ELSE IF Len(p.tokens) = 0
          THEN Raised("FgtConfigSyntaxError", "invalid config", p.lex)
          ELSE \E t \in {next_snl_token(stream, p.lex, TRUE)} :
                  IF t.err # NoError THEN Raised(t.err, t.msg, t.lex)
                  ELSE IF t.token = EDIT
                  THEN Go("table", [found EXCEPT !.lex = t.lex, !.token = t.token,
                              !.stack = Append(@, Block_("table", p.tokens, FALSE,
                                                         FgtConfigTable))])
                  ELSE Go("object", [found EXCEPT !.lex = t.lex, !.token = t.token,
                              !.stack = Append(@, Block_("object", p.tokens, FALSE,
                                                         FgtConfigObject))])
    /\ UNCHANGED RunFrame

\* _parse_config: the token of the table loop is not end, and
\* _parse_table_entry runs up to its loop
OpenEntry ==
    /\ pc = "table"
    /\ found.token # END
    /\ \E p \in {next_parameters(stream, found.lex)} :
          IF p.err # NoError THEN Raised(p.err, p.msg, p.lex)
          ELSE IF Len(p.tokens) # 1
          THEN Raised("FgtConfigSyntaxError", "invalid table configuration", p.lex)
          ELSE \E t \in {next_snl_token(stream, p.lex, TRUE)} :
                  IF t.err # NoError THEN Raised(t.err, t.msg, t.lex)
                  ELSE Go("object", [found EXCEPT !.lex = t.lex, !.token = t.token,
                              !.stack = Append(@, Block_("entry", p.tokens,
                                                         Innermost.keys[1] = VDOM,
                                                         FgtConfigObject))])
    /\ UNCHANGED RunFrame

\* The token that ends the loop of the innermost block
Closing ==
    IF Innermost.kind = "entry"
    THEN found.token = NEXT \/ (Innermost.vdom /\ found.token = END)
    ELSE found.token = END

\* _parse_config_command and, after it, the next token of the loop that
\* called it
Command ==
    /\ pc = "object"
    /\ ~Closing
    /\ IF found.token = CONFIG THEN Go("config", found)
       ELSE IF found.token \notin {SET, UNSET}
       THEN Raised("FgtConfigSyntaxError", "invalid entry", found.lex)
       ELSE \E r \in {_parse_config_command(found.token, stream, found.lex)} :
               IF r.err # NoError THEN Raised(r.err, r.msg, r.lex)
               ELSE \E t \in {next_snl_token(stream, r.lex, TRUE)} :
                       IF t.err # NoError THEN Raised(t.err, t.msg, t.lex)
                       ELSE Go("object",
                               [found EXCEPT !.lex = t.lex, !.token = t.token,
                                   !.stack[Len(found.stack)].config =
                                       SetItem(@, r.key, r.node)])
    /\ UNCHANGED RunFrame

\* _parse_table_entry returns, after pushing back the end that closes a
\* vdom entry together with its table
CloseEntry ==
    /\ pc = "object"
    /\ Innermost.kind = "entry"
    /\ Closing
    /\ Go("entry", [found EXCEPT
            !.lex = IF Innermost.vdom /\ found.token = END
                    THEN push_token(found.lex, found.token) ELSE found.lex,
            !.stack = [Outer EXCEPT ![Len(Outer)].config =
                          SetItem(@, Innermost.keys[1], Innermost.config)]])
    /\ UNCHANGED RunFrame

\* _parse_config: the table loop stores the entry and reads its next token
NextEntry ==
    /\ pc = "entry"
    /\ \E t \in {next_snl_token(stream, found.lex, TRUE)} :
          IF t.err # NoError THEN Raised(t.err, t.msg, t.lex)
          ELSE Go("table", [found EXCEPT !.lex = t.lex, !.token = t.token])
    /\ UNCHANGED RunFrame

\* _parse_config returns the key and the config of its block
CloseConfig ==
    /\ pc \in {"object", "table"}
    /\ Innermost.kind \in {"object", "table"}
    /\ found.token = END
    /\ Go("block", [found EXCEPT
            !.stack = Outer,
            !.ret = [key |-> join(SPACE, Innermost.keys), node |-> Innermost.config]])
    /\ UNCHANGED RunFrame

\* The caller of _parse_config stores the block and reads its next token:
\* parse at the top level, the loop of an object or of an entry below it
StoreBlock ==
    /\ pc = "block"
    /\ IF Len(found.stack) = 0
       THEN \E e \in {IF found.ret.key = VDOM
                      THEN parse_vdom_entries(found.factory_fn, found.comments,
                                              found.ret.node.items, 1,
                                              found.vdoms_config)
                      ELSE [err |-> NoError, msg |-> "",
                            vdoms |-> found.vdoms_config]} :
               IF e.err # NoError THEN Raised(e.err, e.msg, found.lex)
               ELSE \E t \in {next_snl_token(stream, found.lex, FALSE)} :
                       IF t.err # NoError THEN Raised(t.err, t.msg, t.lex)
                       ELSE Go("statement",
                               [found EXCEPT !.lex = t.lex, !.token = t.token,
                                   !.vdoms_config = e.vdoms,
                                   !.global_config =
                                       IF found.ret.key = VDOM THEN @
                                       ELSE DictSet(@, found.ret.key, found.ret.node)])
       ELSE \E t \in {next_snl_token(stream, found.lex, TRUE)} :
               IF t.err # NoError THEN Raised(t.err, t.msg, t.lex)
               ELSE Go("object", [found EXCEPT !.lex = t.lex, !.token = t.token,
                           !.stack[Len(found.stack)].config =
                               SetItem(@, found.ret.key, found.ret.node)])
    /\ UNCHANGED RunFrame

NextRun ==
    \/ ReadComment
    \/ Statement
    \/ Return
    \/ OpenConfig
    \/ OpenEntry
    \/ Command
    \/ CloseEntry
    \/ NextEntry
    \/ CloseConfig
    \/ StoreBlock

SpecRun == InitRun /\ [][NextRun]_vars

\* A step of the run is possible: the guards of the steps, each of which
\* assigns a next state in all its branches
Running == pc \in {"comments", "statement", "config", "table", "object", "entry", "block"}

\* parse is a sequential program that runs on, step after step, until it
\* returns or raises: weak fairness of NextRun, WF_vars(NextRun), written with
\* Running for ENABLED <<NextRun>>_vars
SpecRunFair == SpecRun /\ ([]<>~Running \/ []<><<NextRun>>_vars)

Ended == pc \in {"returned", "raised"}

\* The run ends as parse(stream) does
RunIsParse ==
    Ended => LET same(r) ==
                 /\ r.err = result.err
                 /\ r.lex = result.lex
                 /\ r.err = NoError => r.config = result.config
             IN  same(parse(stream, root_config_factory))

-----------------------------------------------------------------------------
(* The end of a run *)

\* All the characters are read, none is held back and no token is pushed back
AtEndOfStream(L) ==
    /\ L.i = Len(stream) + 1
    /\ L.char = None
    /\ L.token = NoToken

\* C29: on every finite stream parse terminates, by raising or by returning a
\* Configuration, and when it returns the lexer has read the stream to its
\* end: no character is unread and no token is pushed back.
C29_ParseTerminates ==
    /\ <>Ended
    /\ [](pc = "returned" => (result.err = NoError /\ AtEndOfStream(result.lex)))
    /\ [](pc = "raised" => result.err # NoError)

\* parse returns the configuration of a document with a comment and nested
\* blocks
C29_Witness ==
    /\ pc = "returned"
    /\ Len(found.comments) = 1
    /\ Len(result.config.root.items) = 1
    /\ IsBody(result.config.root.items[1].v.items[2].v)
    /\ AtEndOfStream(found.lex)

-----------------------------------------------------------------------------
(* The token pushed back *)

PushTokens == {<<>>, END, NEXT, <<HASH, "c">>, Qx}

\* On a lexer whose slot is empty, push_token(t) makes the next next_token
\* return t and leave the lexer as it was before the push, so that the call
\* after it reads what a call without the push would have read
PushedTokenComesBack ==
    found.lex.token = NoToken =>
        \A t \in PushTokens :
            LET back(r) ==
                /\ r.err = NoError
                /\ r.token = t
                /\ r.lex = found.lex
                /\ next_token(stream, r.lex) = next_token(stream, found.lex)
            IN  back(next_token(stream, push_token(found.lex, t)))

\* The slot is filled only by the push of _parse_table_entry, and it is empty
\* before
PushOnEmptySlot ==
    found'.lex.token # NoToken =>
        /\ found.lex.token = NoToken
        /\ pc = "object" /\ pc' = "entry"
        /\ found'.lex = push_token(found.lex, found.token)

\* The step after a push reads the token pushed and nothing of the stream
PushedTokenIsRead ==
    found.lex.token # NoToken =>
        /\ found'.token = found.lex.token
        /\ found'.lex = [found.lex EXCEPT !.token = NoToken]

\* C30: after push_token(t) the next next_token returns t without reading the
\* stream and the call after it reads the stream again; and in every run of
\* parse push_token is called on an empty slot only, so that no token pushed
\* back is overwritten or lost.
C30_SingleSlotPushback ==
    /\ []PushedTokenComesBack
    /\ [][PushOnEmptySlot /\ PushedTokenIsRead]_vars

\* The end of a vdom entry is pushed back
C30_Witness ==
    /\ pc = "entry"
    /\ found.lex.token = END
    /\ Innermost.kind = "table"
    /\ Len(Innermost.config.items) = 1

====
